---- MODULE Spec2Model ----
(***************************************************************************)
(* A model of the Moog doodle synthesizer: the ADSD envelope generator     *)
(* (src/envelope_generator.js), the oscillator and the master mixer        *)
(* (src/oscillator.js), the low-pass filter (src/unnamed/part_002) and the *)
(* doodle manager (src/moog.js).                                           *)
(*                                                                         *)
(* Numbers.  The source computes with JavaScript doubles.  The model       *)
(* computes with exact rationals, a pair <<n, d>> in lowest terms with     *)
(* d > 0, so that every sum, difference, product and quotient of the       *)
(* source is computed as written.  A division by zero, which in JavaScript *)
(* yields Infinity or NaN, yields the value NonFinite.  In DoubleSpec the  *)
(* envelope generator rounds the result of every operation to a binary     *)
(* floating-point number of MantissaBits bits, ties to even, as JavaScript *)
(* does with 53 bits.                                                      *)
(*                                                                         *)
(* Time.  In Spec, times (sample interval, attack time, decay time) are    *)
(* whole numbers of one time unit; sustain levels are the multiples of     *)
(* 1/LevelSteps in [0, 1].  In the specifications of the oscillator, times *)
(* are seconds and frequencies are hertz.                                  *)
(*                                                                         *)
(* Pitch.  An instantaneous frequency is a pair <<c, e>> that stands for   *)
(* c * 2^(e/12) Hz, c rational and e in 0..11.  The oscillator is sampled  *)
(* at the notes whose frequency is rational (e = 0).                       *)
(*                                                                         *)
(* Specifications.  Spec and FairSpec: the envelope generator under every  *)
(* call.  MoogSpec: the doodle, its audio switch and the keys.  OscSpec:   *)
(* the oscillator's phase and wave forms.  GlideSpec: the oscillator's     *)
(* glide.  PitchSpec: the frequency and pitch bend of every note.          *)
(* FillSpec: the output buffer and its fill modes.  ModulationSpec: the    *)
(* frequency modulation switch and the modulator buffer passed in.         *)
(* ModulatorSpec: the modulator buffer an oscillator writes.  SynthSpec:   *)
(* the keys of the synthesizer.  PassSpec: the order in which one audio    *)
(* pass fills the oscillators.  ShortGlideSpec: glide durations around one *)
(* sample interval.  FilterSpec: the low-pass filter and the changes it    *)
(* schedules on its frequency.  DoubleSpec: the envelope generator in      *)
(* rounded arithmetic.                                                     *)
(***************************************************************************)
EXTENDS Integers, Sequences

\* ------------------------------------------------------------------ bounds
\* The sample interval ranges over 1..MaxInterval time units.
MaxInterval == 2
\* Attack and decay times range over -NegTimes..MaxTime time units.
MaxTime == 3
\* Sustain levels range over k/LevelSteps, k in 0..LevelSteps.
LevelSteps == 2
\* The number of negative times in that range: negative and zero times are
\* the "instantaneous" cases of recomputePhaseSteps_.
NegTimes == 1
\* The connect callbacks that may wait in the timer queue at once.
MaxPendingConnects == 2
\* The sample rate, in samples per second, of the context the doodle of
\* src/moog.js is built in.
MoogSampleRate == 5
\* The samples of one audio buffer.
BufferLength == 2
\* Keyboard notes range over 0..MaxNote.
MaxNote == 16
\* The clock of the audio context advances MaxClock times.
MaxClock == 3
\* The bits of the mantissa of a number in double arithmetic.
MantissaBits == 8

\* The calls of setKeyDown and setKeyUp that are followed.
MaxKeyCalls == 3

\* The passes of the synthesizer over its oscillators that are followed.
MaxPasses == 3

\* ------------------------------------------------------- rational numbers
NonFinite == <<0, 0>>

IsFinite(x) == x # NonFinite

Abs(i) == IF i < 0 THEN 0 - i ELSE i

RECURSIVE GCD(_, _)
GCD(a, b) == IF b = 0 THEN a ELSE GCD(b, a % b)

\* The rational n/d in lowest terms, d # 0.
Rat(n, d) ==
  LET s == IF d < 0 THEN 0 - 1 ELSE 1
      g == GCD(Abs(n), Abs(d))
  IN  <<(s * n) \div g, (s * d) \div g>>

FromInt(i) == <<i, 1>>

Zero == FromInt(0)

One == FromInt(1)

Add(x, y) ==
  IF ~IsFinite(x) \/ ~IsFinite(y) THEN NonFinite
  ELSE Rat(x[1] * y[2] + y[1] * x[2], x[2] * y[2])

Sub(x, y) ==
  IF ~IsFinite(x) \/ ~IsFinite(y) THEN NonFinite
  ELSE Rat(x[1] * y[2] - y[1] * x[2], x[2] * y[2])

Mul(x, y) ==
  IF ~IsFinite(x) \/ ~IsFinite(y) THEN NonFinite
  ELSE Rat(x[1] * y[1], x[2] * y[2])

\* JavaScript's x / y: a division by zero does not throw, its result is not
\* a finite number.
Quot(x, y) ==
  IF ~IsFinite(x) \/ ~IsFinite(y) \/ y[1] = 0 THEN NonFinite
  ELSE Rat(x[1] * y[2], x[2] * y[1])

\* x <= y; a comparison with a non-finite operand is false (NaN).
Leq(x, y) == IsFinite(x) /\ IsFinite(y) /\ x[1] * y[2] <= y[1] * x[2]

Geq(x, y) == Leq(y, x)

Less(x, y) == Leq(x, y) /\ x # y

RatAbs(x) == IF IsFinite(x) THEN <<Abs(x[1]), x[2]>> ELSE NonFinite

\* The least integer that is not below the finite rational x.
Ceil(x) == 0 - ((0 - x[1]) \div x[2])

RECURSIVE Pow2(_)
\* Math.pow(2, q) for an integer q.
Pow2(q) ==
  IF q = 0 THEN One
  ELSE IF q > 0 THEN Mul(FromInt(2), Pow2(q - 1))
  ELSE Quot(Pow2(q + 1), FromInt(2))

\* null, where a number is expected.
Null == <<0, 0 - 2>>

\* ----------------------------------------------------------------- phases
ATTACK == 0

DECAY == 1

SUSTAIN == 2

RELEASE == 3

INACTIVE == 4

Phase_ == {ATTACK, DECAY, SUSTAIN, RELEASE, INACTIVE}

\* ------------------------------------------------------------ input ranges
Intervals == {FromInt(i) : i \in 1..MaxInterval}

Times == {FromInt(i) : i \in (0 - NegTimes)..MaxTime}

Levels == {Rat(k, LevelSteps) : k \in 0..LevelSteps}

SetterOps == {"setAttackTime", "setDecayTime", "setSustainLevel"}

\* ------------------------------------------------------------------ state
VARIABLES
  SAMPLE_INTERVAL_,       \* seconds per sample, constant after construction
  amplitudeCoefficient_,  \* the current amplitude coefficient
  phase_,                 \* the current phase
  attackTime_,            \* duration of the attack phase
  attackStep_,            \* amplitude increase per sample in ATTACK
  decayTime_,             \* duration of the decay (and release) phase
  decayStep_,             \* amplitude decrease per sample in DECAY
  sustainLevel_,          \* the sustain amplitude coefficient
  releaseStep_,           \* amplitude decrease per sample in RELEASE
  lastOp,                 \* history: the method called last
  undisturbed,            \* history: the last startAttack was called in
                          \* INACTIVE and only samples were taken since
  releasedAmplitude,      \* history: right after a startAttack called in
                          \* RELEASE, the amplitude it found
  releaseSamples,         \* history: the samples taken since startRelease
                          \* began a release at an amplitude above 0, Null
                          \* outside such a release or after a setter
  arithmetic,             \* "exact" or "double": how the envelope generator
                          \* computes, fixed for a behaviour
  \* doodle.moog.Moog and its master mixer (src/moog.js, src/oscillator.js)
  webkitAudioContext,     \* environment: "absent", "throws" or "ok"
  isWebAudioEnabled_,     \* typeof webkitAudioContext === 'function'
  synthesizers_,          \* the number of synthesizers created
  masterMixer_,           \* Undefined or MasterMixer
  pendingConnects,        \* connect callbacks scheduled by turnOn, not yet run
  connected,              \* the band-pass filter is connected to
                          \* audioContext.destination
  disposed_,              \* goog.Disposable: dispose() has run
  audioOff,               \* history: turnOffAudio or dispose was called and
                          \* no turnOnAudio since
  threw,                  \* history: a call ended with an exception
  \* doodle.moog.Oscillator (src/oscillator.js)
  oscillatorPhase_,       \* Oscillator.phase_, seconds into the cycle
  waveForm_,
  range_,
  pitchBend_,
  isAcceptingKeyboardPitch_,
  isFrequencyModulationOn_,
  isGlideOn_,
  glideDuration_,
  glideDelta_,
  currentGlidePitch_,
  targetGlidePitch_,
  activeNote_,
  \* fillAudioBuffer: its position and its locals
  bufferIndex,            \* i, 0 between two buffers
  targetFrequency,        \* the instantaneous frequency of the buffer
  pitchBend,              \* the pitch bend ratio of the buffer
  glideFrequency,         \* what getGlideFrequency_ returned last
  frequency,              \* the frequency passed to advancedPhase_ last
  progressInCycle,        \* what advancedPhase_ returned last
  waveLevel,              \* level: the last waveform level, before scaling
  steady,                 \* history: every sample so far was played at
                          \* the same frequency
  cycleTime,              \* history: while steady, the time of the next
                          \* sample within its cycle
  glideStart,             \* history: the pitch from which the target
                          \* frequency last changed, while that change
                          \* is in progress
  glideSamples,           \* history: the samples since that change
  \* the oscillator's output
  volume_,
  IS_MODULATOR_,
  modulatorLevel_,
  modulatorSignal,        \* the buffer this oscillator writes as a
                          \* modulator, NoBuffer while it is null
  fillMode,               \* fillAudioBuffer's argument fillMode
  mixDivisor,             \* fillAudioBuffer's argument opt_mixDivisor
  right,                  \* channel 0 of e.outputBuffer
  modulatorInput,         \* fillAudioBuffer's argument modulatorSignal, as
                          \* the sample it holds at the index of the next
                          \* sample: Null for a null buffer
  \* doodle.moog.Synthesizer: its keys
  noteActive,             \* a key is down
  oscillatorTriggers,     \* history: for each oscillator, the calls of
                          \* startAttack and startRelease its envelope got
  contourTriggers,        \* history: the same for the filter's contour
  keyCalls,               \* history: the calls of setKeyDown and setKeyUp
  \* doodle.moog.Synthesizer: its passes over the oscillators
  pass,                   \* the number of the pass in progress
  passPosition,           \* the position in PassOrder of the oscillator
                          \* that fills its buffer
  readIndex,              \* i of the oscillator that reads the modulator
                          \* buffer
  modulatorRead,          \* the sample that oscillator read last
  writtenInPass,          \* history: the pass in which each sample of the
                          \* modulator buffer was written
  readFromPass,           \* history: the pass in which the sample read
                          \* last was written
  \* doodle.moog.LowPassFilter
  lowPassFilter,          \* the fields cutoffFrequency_, contour_,
                          \* attackTime_, decayTime_ and sustainLevel_
  lowPassFilterNode_,     \* the frequency AudioParam of the filter node: its
                          \* value, the changes scheduled on it and, as
                          \* history, whether a ramp was in flight when
                          \* changes were cancelled last
  currentTime             \* audioContext_.currentTime, in seconds

vars == <<SAMPLE_INTERVAL_, amplitudeCoefficient_, phase_, attackTime_,
          attackStep_, decayTime_, decayStep_, sustainLevel_, releaseStep_,
          lastOp, undisturbed, releasedAmplitude, releaseSamples, arithmetic,
          webkitAudioContext, isWebAudioEnabled_, synthesizers_,
          masterMixer_, pendingConnects, connected, disposed_, audioOff,
          threw,
          oscillatorPhase_, waveForm_, range_, pitchBend_,
          isAcceptingKeyboardPitch_, isFrequencyModulationOn_, isGlideOn_,
          glideDuration_, glideDelta_, currentGlidePitch_, targetGlidePitch_,
          activeNote_, bufferIndex, targetFrequency, pitchBend,
          glideFrequency, frequency, progressInCycle, waveLevel, steady,
          cycleTime, glideStart, glideSamples,
          volume_, IS_MODULATOR_, modulatorLevel_, modulatorSignal, fillMode,
          mixDivisor, right, modulatorInput,
          noteActive, oscillatorTriggers, contourTriggers, keyCalls,
          pass, passPosition, readIndex, modulatorRead, writtenInPass,
          readFromPass,
          lowPassFilter, lowPassFilterNode_, currentTime>>

\* The envelope state, without the history variables.
envelope == <<SAMPLE_INTERVAL_, amplitudeCoefficient_, phase_, attackTime_,
              attackStep_, decayTime_, decayStep_, sustainLevel_,
              releaseStep_>>

moogVars == <<webkitAudioContext, isWebAudioEnabled_, synthesizers_,
              masterMixer_, pendingConnects, connected, disposed_, audioOff,
              threw>>

\* The oscillator's parameters.
oscParams == <<waveForm_, range_, pitchBend_, isAcceptingKeyboardPitch_,
               isFrequencyModulationOn_, isGlideOn_, glideDuration_,
               activeNote_>>

\* What the oscillator keeps from sample to sample, and the locals and
\* results of fillAudioBuffer.
oscRunning == <<oscillatorPhase_, glideDelta_, currentGlidePitch_,
                targetGlidePitch_, bufferIndex, targetFrequency, pitchBend,
                glideFrequency, frequency, progressInCycle, waveLevel>>

oscHistory == <<steady, cycleTime, glideStart, glideSamples>>

\* The parameters of the oscillator's output.
mixParams == <<volume_, IS_MODULATOR_, modulatorLevel_>>

\* The output of the oscillator: its parameters, the arguments of
\* fillAudioBuffer and the buffers it writes.
oscOutput == <<mixParams, modulatorSignal, fillMode, mixDivisor, right,
               modulatorInput>>

\* The keys of the synthesizer.
keyVars == <<noteActive, oscillatorTriggers, contourTriggers, keyCalls>>

\* The passes of the synthesizer over its oscillators.
passVars == <<pass, passPosition, readIndex, modulatorRead, writtenInPass,
              readFromPass>>

oscVars == <<oscParams, oscRunning, oscHistory, oscOutput, keyVars, passVars>>

\* The low-pass filter and the clock of its audio context.
filterVars == <<lowPassFilter, lowPassFilterNode_, currentTime>>

\* No startAttack was called in RELEASE by the last method call.
NoAmplitude == <<0, 0 - 1>>

\* ------------------------------------------------ JavaScript numbers
RECURSIVE Normalized(_, _, _)
\* <<n', d', e>> with n/d = (n'/d') * 2^e and the quotient n'/d' in
\* [2^(MantissaBits - 1), 2^MantissaBits), for n > 0 and d > 0.
Normalized(n, d, e) ==
  IF n >= d * (2 ^ MantissaBits) THEN Normalized(n, 2 * d, e + 1)
  ELSE IF n < d * (2 ^ (MantissaBits - 1)) THEN Normalized(2 * n, d, e - 1)
  ELSE <<n, d, e>>

\* The binary floating-point number nearest to x, ties to the even mantissa:
\* the result of an operation on numbers whose exact result is x.
Double(x) ==
  IF ~IsFinite(x) \/ x[1] = 0 THEN x
  ELSE LET norm == Normalized(Abs(x[1]), x[2], 0)
           m == norm[1] \div norm[2]
           r == norm[1] % norm[2]
           rounded == IF 2 * r > norm[2] \/ (2 * r = norm[2] /\ m % 2 = 1)
                        THEN m + 1 ELSE m
           sign == IF x[1] < 0 THEN 0 - 1 ELSE 1
       IN  Mul(FromInt(sign * rounded), Pow2(norm[3]))

\* The result of an operation of the envelope generator whose exact result
\* is x.
Number(x) == IF arithmetic = "double" THEN Double(x) ELSE x

\* ------------------------------------------------- recomputePhaseSteps_
\* AttackStepFor with the instantaneous case tested by < instead of <=.
AttackStepFor_StrictGuard(interval, attackTime) ==
  IF Less(attackTime, Zero) THEN One
  ELSE Quot(interval, attackTime)

\* attackStep_ as recomputePhaseSteps_ sets it.
AttackStepFor(interval, attackTime) ==
  IF Leq(attackTime, Zero) THEN One
  ELSE Number(Quot(interval, attackTime))

\* decayStep_ as recomputePhaseSteps_ sets it.
DecayStepFor(interval, decayTime, sustainLevel) ==
  IF Leq(decayTime, Zero) THEN One
  ELSE Number(Quot(Number(Mul(Number(Sub(One, sustainLevel)), interval)),
                   decayTime))

\* releaseStep_ as recomputePhaseSteps_ sets it.
SustainReleaseStepFor(interval, decayTime, sustainLevel) ==
  IF Leq(decayTime, Zero) THEN One
  ELSE Number(Quot(Number(Mul(sustainLevel, interval)), decayTime))

\* recomputePhaseSteps_ run on the parameters (attackTime, decayTime,
\* sustainLevel): all three steps are overwritten.
RecomputePhaseSteps(attackTime, decayTime, sustainLevel) ==
  /\ attackStep_' = AttackStepFor(SAMPLE_INTERVAL_, attackTime)
  /\ decayStep_' = DecayStepFor(SAMPLE_INTERVAL_, decayTime, sustainLevel)
  /\ releaseStep_' =
       SustainReleaseStepFor(SAMPLE_INTERVAL_, decayTime, sustainLevel)

\* ------------------------------------------ doodle.moog.Oscillator constants
BASE_FREQUENCY_ == 55

MAJOR_SIXTH_FREQUENCY_RATIO_ == Rat(5, 3)

THREE_OCTAVE_FREQUENCY_RATIO_ == FromInt(8)

NOTE_OFFSET_ == 0 - 4

WaveForm ==
  {"TRIANGLE", "SAWANGLE", "RAMP", "REVERSE_RAMP", "SQUARE", "FAT_PULSE",
   "PULSE"}

\* Time is counted in ticks of 1/TicksPerSecond seconds: a cycle of
\* BASE_FREQUENCY_, 2 / BASE_FREQUENCY_ seconds, is 16 ticks.
TicksPerSecond == 8 * BASE_FREQUENCY_

\* The sample intervals 1 / audioContext.sampleRate of the oscillator.
OscIntervals == {Rat(i, TicksPerSecond) : i \in 1..MaxInterval}

\* The keyboard notes.
Notes == 0..MaxNote

\* The notes that are whole octaves above the base frequency: their
\* frequencies are rational numbers.
OctaveNotes == {n \in Notes : (n + NOTE_OFFSET_) % 12 = 0}

Ranges == {FromInt(1), FromInt(2)}

PitchBends == {Zero, Rat(1, 2)}

GlideDurations == {Zero, Rat(2, TicksPerSecond)}

\* The samples a modulator oscillator may have written.
ModulatorSignals == {FromInt(0 - 1), Rat(0 - 1, 3)}

\* The volumes of an oscillator.
Volumes == {Zero, One}

\* The oscillators of a synthesizer, as src/moog.js builds them.
Oscillators == 3

\* The modulator levels of an oscillator, the one of src/moog.js among
\* them.
ModulatorLevels == {Rat(3, 5), One}

\* The divisors passed with FillMode.MIX.
MixDivisors == {FromInt(Oscillators)}

\* The samples the output buffer may hold when it is passed to the
\* oscillator: sums of the samples of up to Oscillators - 1 oscillators
\* that filled it before.
HeldSamples == {FromInt(0 - 2), One}

\* The modulator buffer passed to fillAudioBuffer, sample by sample: null,
\* or what a modulator oscillator may have written.
FillSignals == {Null} \cup ModulatorSignals

\* No frequency has been computed yet.
NoFrequency == <<Null, 0>>

\* new doodle.moog.Oscillator(...)
OscillatorConstructed(waveForm, range, bend, isGlideOn, glideTime) ==
  /\ oscillatorPhase_ = Zero
  /\ waveForm_ = waveForm
  /\ range_ = range
  /\ pitchBend_ = bend
  /\ isAcceptingKeyboardPitch_ = TRUE
  /\ isFrequencyModulationOn_ = FALSE
  /\ isGlideOn_ = isGlideOn
  /\ glideDuration_ = glideTime
  /\ glideDelta_ = Null
  /\ currentGlidePitch_ = Null
  /\ targetGlidePitch_ = Null
  /\ activeNote_ = 0
  /\ bufferIndex = 0
  /\ targetFrequency = NoFrequency
  /\ pitchBend = Null
  /\ glideFrequency = Null
  /\ frequency = Null
  /\ progressInCycle = Null
  /\ waveLevel = Null
  /\ steady = TRUE
  /\ cycleTime = Zero
  /\ glideStart = Null
  /\ glideSamples = 0

\* doodle.moog.OscillatorInterface.FillMode
FillMode == {"CLOBBER", "ADD", "MIX"}

\* A null buffer.
NoBuffer == << >>

\* The indices of a buffer of BufferLength samples.
BufferIndices == 1..BufferLength

\* new Float32Array(buffer.length)
Float32Array == [i \in BufferIndices |-> Zero]

\* The output buffers passed to the oscillator.
HeldBuffers == {[i \in BufferIndices |-> held] : held \in HeldSamples}

\* new doodle.moog.Oscillator(...): the volume, the modulator flag and the
\* modulator level; the output buffer is the caller's, handed over with
\* each call of fillAudioBuffer.
OutputConstructed(volume, isModulator, modulatorLevel) ==
  /\ volume_ = volume
  /\ IS_MODULATOR_ = isModulator
  /\ modulatorLevel_ = modulatorLevel
  /\ modulatorSignal = NoBuffer
  /\ fillMode = "CLOBBER"
  /\ mixDivisor = Null
  /\ right = Float32Array
  /\ modulatorInput = Null

\* The order in which a pass of the synthesizer fills the buffers of its
\* oscillators: the modulator first, then the oscillators that read its
\* modulator buffer.
PassOrder_CarrierFirst == <<"carrier", "modulator">>

PassOrder == <<"modulator", "carrier">>

\* new doodle.moog.Synthesizer(...): no key is down and no pass has begun.
SynthesizerConstructed ==
  /\ noteActive = FALSE
  /\ oscillatorTriggers = [o \in 1..Oscillators |-> << >>]
  /\ contourTriggers = << >>
  /\ keyCalls = << >>
  /\ pass = 1
  /\ passPosition = 1
  /\ readIndex = 0
  /\ modulatorRead = Null
  /\ writtenInPass = [i \in BufferIndices |-> 0]
  /\ readFromPass = 0

\* ------------------------------------------------ doodle.moog.LowPassFilter
\* The cutoff frequencies, in hertz.
Cutoffs == {FromInt(1050), FromInt(2100)}

Contours == {One, FromInt(7)}

\* The attack and decay times of the contour, in seconds.
ContourTimes == {Zero, Rat(4, 5)}

ContourLevels == {Zero, Rat(1, 2), One}

\* The time between two readings of audioContext_.currentTime, in seconds.
ClockStep == Rat(2, 5)

\* The value of an AudioParam in the middle of an exponential ramp between
\* two different values: a number strictly between them.
InRamp == <<0, 0 - 3>>

\* The changes an AudioParam schedules.
SetValueAtTime(value, time) ==
  [kind |-> "setValueAtTime", value |-> value, time |-> time]

ExponentialRampToValueAtTime(value, time) ==
  [kind |-> "exponentialRampToValueAtTime", value |-> value, time |-> time]

\* AudioParam.cancelScheduledValues(startTime) removes the changes scheduled
\* at or after startTime.
CancelScheduledValues_After(events, startTime) ==
  SelectSeq(events, LAMBDA e : Leq(e.time, startTime))

CancelScheduledValues(events, startTime) ==
  SelectSeq(events, LAMBDA e : Less(e.time, startTime))

\* An AudioParam keeps its changes in the order of their times, a new change
\* after the changes of the same time.
Scheduled(events, event) ==
  LET before == SelectSeq(events, LAMBDA e : Leq(e.time, event.time))
      after == SelectSeq(events, LAMBDA e : Less(event.time, e.time))
  IN  before \o <<event>> \o after

\* An exponential ramp is in flight at the time t.
RampInFlight(events, t) ==
  \E i \in 1..Len(events) :
    /\ events[i].kind = "exponentialRampToValueAtTime"
    /\ Less(t, events[i].time)

\* The value of an AudioParam at the time t: the value of the change reached
\* last, but for the ramp towards the next change.
ValueAtTime(value, events, t) ==
  LET reached == SelectSeq(events, LAMBDA e : Leq(e.time, t))
      n == Len(reached)
  IN  IF n = 0 THEN value
      ELSE IF /\ n < Len(events)
              /\ events[n + 1].kind = "exponentialRampToValueAtTime"
              /\ Less(reached[n].time, t)
              /\ events[n + 1].value # reached[n].value
        THEN InRamp
      ELSE reached[n].value

ResetContourEnvelope ==
  lowPassFilterNode_' =
    [value |-> lowPassFilter'.cutoffFrequency_,
     events |-> CancelScheduledValues(lowPassFilterNode_.events, Zero),
     interrupted |-> RampInFlight(lowPassFilterNode_.events, currentTime)]

LowPassFilterConstructed(cutoffFrequency, contour, attackTime, decayTime, sustainLevel) ==
  /\ lowPassFilter =
       [cutoffFrequency_ |-> cutoffFrequency, contour_ |-> contour,
        attackTime_ |-> attackTime, decayTime_ |-> decayTime,
        sustainLevel_ |-> sustainLevel]
  /\ lowPassFilterNode_ =
       [value |-> cutoffFrequency, events |-> << >>, interrupted |-> FALSE]
  /\ currentTime = Zero

\* The frequency the contour settles on.
SustainFrequency_FromContour(cutoffFrequency, contourFrequency, sustainLevel) ==
  Add(contourFrequency,
      Mul(sustainLevel, Sub(contourFrequency, cutoffFrequency)))

SustainFrequency(cutoffFrequency, contourFrequency, sustainLevel) ==
  Add(cutoffFrequency,
      Mul(sustainLevel, Sub(contourFrequency, cutoffFrequency)))

LowPassFilterStartAttack ==
  LET now == currentTime
      cutoffFrequency == lowPassFilter.cutoffFrequency_
      contourFrequency == Mul(lowPassFilter.contour_, cutoffFrequency)
      cancelled == CancelScheduledValues(lowPassFilterNode_.events, now)
      held == Scheduled(cancelled, SetValueAtTime(cutoffFrequency, now))
      attack ==
        Scheduled(held,
                  ExponentialRampToValueAtTime(
                    contourFrequency, Add(now, lowPassFilter.attackTime_)))
      decay ==
        Scheduled(attack,
                  ExponentialRampToValueAtTime(
                    SustainFrequency(cutoffFrequency, contourFrequency,
                                     lowPassFilter.sustainLevel_),
                    Add(Add(now, lowPassFilter.attackTime_),
                        lowPassFilter.decayTime_)))
  IN  /\ lowPassFilterNode_' =
           [value |-> cutoffFrequency, events |-> decay,
            interrupted |-> RampInFlight(lowPassFilterNode_.events, now)]
      /\ UNCHANGED <<lowPassFilter, currentTime>>

SetCutoffFrequency(cutoffFrequency) ==
  /\ lowPassFilter' =
       [lowPassFilter EXCEPT !.cutoffFrequency_ = cutoffFrequency]
  /\ ResetContourEnvelope
  /\ UNCHANGED currentTime

SetContour(contour) ==
  /\ lowPassFilter' = [lowPassFilter EXCEPT !.contour_ = contour]
  /\ ResetContourEnvelope
  /\ UNCHANGED currentTime

SetContourAttackTime(time) ==
  /\ lowPassFilter' = [lowPassFilter EXCEPT !.attackTime_ = time]
  /\ ResetContourEnvelope
  /\ UNCHANGED currentTime

SetContourDecayTime(time) ==
  /\ lowPassFilter' = [lowPassFilter EXCEPT !.decayTime_ = time]
  /\ ResetContourEnvelope
  /\ UNCHANGED currentTime

SetContourSustainLevel(level) ==
  /\ lowPassFilter' = [lowPassFilter EXCEPT !.sustainLevel_ = level]
  /\ ResetContourEnvelope
  /\ UNCHANGED currentTime

\* The clock of the audio context advances, and the frequency follows the
\* changes scheduled on it.
AdvanceTime ==
  /\ Less(currentTime, Mul(FromInt(MaxClock), ClockStep))
  /\ currentTime' = Add(currentTime, ClockStep)
  /\ lowPassFilterNode_' =
       [lowPassFilterNode_ EXCEPT
          !.value = ValueAtTime(lowPassFilterNode_.value,
                                lowPassFilterNode_.events, currentTime')]
  /\ UNCHANGED lowPassFilter

\* -------------------------------------------- doodle.moog.Moog constructor
Undefined == "undefined"
MasterMixer == "MasterMixer"
AudioContexts == {"absent", "throws", "ok"}

\* new doodle.moog.Moog(): initializeWebAudio_ runs when webkitAudioContext
\* is a function, and returns early when constructing the context throws.
MoogConstructed(context) ==
  /\ webkitAudioContext = context
  /\ isWebAudioEnabled_ = (context # "absent")
  /\ synthesizers_ = (IF context = "ok" THEN 1 ELSE 0)
  /\ masterMixer_ = (IF context = "ok" THEN MasterMixer ELSE Undefined)
  /\ pendingConnects = 0
  /\ connected = FALSE
  /\ disposed_ = FALSE
  /\ audioOff = FALSE
  /\ threw = FALSE

\* ------------------------------------------------------------ constructor
Init ==
  /\ arithmetic = "exact"
  /\ SAMPLE_INTERVAL_ \in Intervals
  /\ amplitudeCoefficient_ = Zero
  /\ phase_ = INACTIVE
  /\ attackTime_ \in Times
  /\ decayTime_ \in Times
  /\ sustainLevel_ \in Levels
  /\ attackStep_ = AttackStepFor(SAMPLE_INTERVAL_, attackTime_)
  /\ decayStep_ = DecayStepFor(SAMPLE_INTERVAL_, decayTime_, sustainLevel_)
  /\ releaseStep_ =
       SustainReleaseStepFor(SAMPLE_INTERVAL_, decayTime_, sustainLevel_)
  /\ lastOp = "new"
  /\ undisturbed = FALSE
  /\ releasedAmplitude = NoAmplitude
  /\ releaseSamples = Null
  /\ MoogConstructed("ok")
  /\ OscillatorConstructed("SQUARE", One, Zero, TRUE, Rat(1, 20))
  /\ OutputConstructed(Rat(23, 50), FALSE, Zero)
  /\ SynthesizerConstructed
  /\ LowPassFilterConstructed(FromInt(2100), FromInt(7), Zero, Rat(4, 5), Zero)

\* ------------------------------------------------------------ startAttack
\* StartAttack without the reset of the amplitude coefficient.
StartAttack_KeepAmplitude ==
  /\ RecomputePhaseSteps(attackTime_, decayTime_, sustainLevel_)
  /\ phase_' = ATTACK
  /\ lastOp' = "startAttack"
  /\ undisturbed' = (phase_ = INACTIVE)
  /\ UNCHANGED <<SAMPLE_INTERVAL_, amplitudeCoefficient_, attackTime_,
                 decayTime_, sustainLevel_>>

StartAttack ==
  /\ RecomputePhaseSteps(attackTime_, decayTime_, sustainLevel_)
  /\ amplitudeCoefficient_' = Zero
  /\ phase_' = ATTACK
  /\ lastOp' = "startAttack"
  /\ undisturbed' = (phase_ = INACTIVE)
  /\ UNCHANGED <<SAMPLE_INTERVAL_, attackTime_, decayTime_, sustainLevel_>>

\* ----------------------------------------------------------- startRelease
\* ReleaseStepFor computed from the sustain level, as recomputePhaseSteps_
\* computes it, instead of the current amplitude.
ReleaseStepFor_FromSustain(interval, decayTime, amplitude) ==
  IF Leq(decayTime, Zero) THEN One
  ELSE Number(Quot(Number(Mul(sustainLevel_, interval)), decayTime))

\* releaseStep_ as startRelease sets it, from the current amplitude.
ReleaseStepFor(interval, decayTime, amplitude) ==
  IF Leq(decayTime, Zero) THEN One
  ELSE Number(Quot(Number(Mul(amplitude, interval)), decayTime))

\* StartRelease without the early return, taking the first release step at
\* once.
StartRelease_EagerStep ==
  LET step == ReleaseStepFor(SAMPLE_INTERVAL_, decayTime_,
                             amplitudeCoefficient_)
  IN  /\ releaseStep_' = step
      /\ amplitudeCoefficient_' = Sub(amplitudeCoefficient_, step)
      /\ phase_' = RELEASE
      /\ lastOp' = "startRelease"
      /\ undisturbed' = FALSE
      /\ UNCHANGED <<SAMPLE_INTERVAL_, attackTime_, attackStep_, decayTime_,
                     decayStep_, sustainLevel_>>

StartRelease ==
  /\ IF phase_ = RELEASE
       THEN UNCHANGED <<releaseStep_, phase_>>
       ELSE /\ releaseStep_' = ReleaseStepFor(SAMPLE_INTERVAL_, decayTime_,
                                              amplitudeCoefficient_)
            /\ phase_' = RELEASE
  /\ lastOp' = "startRelease"
  /\ undisturbed' = FALSE
  /\ UNCHANGED <<SAMPLE_INTERVAL_, amplitudeCoefficient_, attackTime_,
                 attackStep_, decayTime_, decayStep_, sustainLevel_>>

\* -------------------------------------------- getNextAmplitudeCoefficient
\* NextSample without the clamp to 1 at the end of the attack.
NextSample_NoAttackClamp(phase, amplitude, attackStep, decayStep, releaseStep, level) ==
  CASE phase = ATTACK ->
         LET a == Add(amplitude, attackStep)
         IN  IF Geq(a, One) THEN <<a, DECAY>> ELSE <<a, ATTACK>>
    [] phase = DECAY ->
         LET a == Sub(amplitude, decayStep)
         IN  IF Leq(a, level) THEN <<level, SUSTAIN>>
             ELSE <<a, DECAY>>
    [] phase = SUSTAIN -> <<amplitude, SUSTAIN>>
    [] phase = RELEASE ->
         LET a == Sub(amplitude, releaseStep)
         IN  IF Leq(a, Zero) THEN <<Zero, INACTIVE>> ELSE <<a, RELEASE>>
    [] phase = INACTIVE -> <<amplitude, INACTIVE>>

\* NextSample without the clamp to 0 at the end of the release.
NextSample_NoReleaseClamp(phase, amplitude, attackStep, decayStep, releaseStep, level) ==
  CASE phase = ATTACK ->
         LET a == Add(amplitude, attackStep)
         IN  IF Geq(a, One) THEN <<One, DECAY>> ELSE <<a, ATTACK>>
    [] phase = DECAY ->
         LET a == Sub(amplitude, decayStep)
         IN  IF Leq(a, level) THEN <<level, SUSTAIN>>
             ELSE <<a, DECAY>>
    [] phase = SUSTAIN -> <<amplitude, SUSTAIN>>
    [] phase = RELEASE ->
         LET a == Sub(amplitude, releaseStep)
         IN  IF Leq(a, Zero) THEN <<a, INACTIVE>> ELSE <<a, RELEASE>>
    [] phase = INACTIVE -> <<amplitude, INACTIVE>>

\* NextSample whose held note follows the sustain level.
NextSample_SustainTracksLevel(phase, amplitude, attackStep, decayStep, releaseStep, level) ==
  CASE phase = ATTACK ->
         LET a == Add(amplitude, attackStep)
         IN  IF Geq(a, One) THEN <<One, DECAY>> ELSE <<a, ATTACK>>
    [] phase = DECAY ->
         LET a == Sub(amplitude, decayStep)
         IN  IF Leq(a, level) THEN <<level, SUSTAIN>>
             ELSE <<a, DECAY>>
    [] phase = SUSTAIN -> <<level, SUSTAIN>>
    [] phase = RELEASE ->
         LET a == Sub(amplitude, releaseStep)
         IN  IF Leq(a, Zero) THEN <<Zero, INACTIVE>> ELSE <<a, RELEASE>>
    [] phase = INACTIVE -> <<amplitude, INACTIVE>>

\* The <<amplitude, phase>> pair one sample later.
NextSample(phase, amplitude, attackStep, decayStep, releaseStep, level) ==
  CASE phase = ATTACK ->
         LET a == Number(Add(amplitude, attackStep))
         IN  IF Geq(a, One) THEN <<One, DECAY>> ELSE <<a, ATTACK>>
    [] phase = DECAY ->
         LET a == Number(Sub(amplitude, decayStep))
         IN  IF Leq(a, level) THEN <<level, SUSTAIN>>
             ELSE <<a, DECAY>>
    [] phase = SUSTAIN -> <<amplitude, SUSTAIN>>
    [] phase = RELEASE ->
         LET a == Number(Sub(amplitude, releaseStep))
         IN  IF Leq(a, Zero) THEN <<Zero, INACTIVE>> ELSE <<a, RELEASE>>
    [] phase = INACTIVE -> <<amplitude, INACTIVE>>

GetNextAmplitudeCoefficient ==
  LET next == NextSample(phase_, amplitudeCoefficient_, attackStep_,
                         decayStep_, releaseStep_, sustainLevel_)
  IN  /\ amplitudeCoefficient_' = next[1]
      /\ phase_' = next[2]
      /\ lastOp' = "sample"
      /\ UNCHANGED <<SAMPLE_INTERVAL_, attackTime_, attackStep_, decayTime_,
                     decayStep_, sustainLevel_, releaseStep_, undisturbed>>

\* ---------------------------------------------------------------- setters
SetAttackTime(time) ==
  /\ attackTime_' = time
  /\ RecomputePhaseSteps(time, decayTime_, sustainLevel_)
  /\ lastOp' = "setAttackTime"
  /\ undisturbed' = FALSE
  /\ UNCHANGED <<SAMPLE_INTERVAL_, amplitudeCoefficient_, phase_, decayTime_,
                 sustainLevel_>>

SetDecayTime(time) ==
  /\ decayTime_' = time
  /\ RecomputePhaseSteps(attackTime_, time, sustainLevel_)
  /\ lastOp' = "setDecayTime"
  /\ undisturbed' = FALSE
  /\ UNCHANGED <<SAMPLE_INTERVAL_, amplitudeCoefficient_, phase_, attackTime_,
                 sustainLevel_>>

\* SetSustainLevel that also moves a held note to the new level.
SetSustainLevel_SnapHeldNote(level) ==
  /\ sustainLevel_' = level
  /\ RecomputePhaseSteps(attackTime_, decayTime_, level)
  /\ amplitudeCoefficient_' =
       IF phase_ \in {DECAY, SUSTAIN} THEN level ELSE amplitudeCoefficient_
  /\ lastOp' = "setSustainLevel"
  /\ undisturbed' = FALSE
  /\ UNCHANGED <<SAMPLE_INTERVAL_, phase_, attackTime_, decayTime_>>

SetSustainLevel(level) ==
  /\ sustainLevel_' = level
  /\ RecomputePhaseSteps(attackTime_, decayTime_, level)
  /\ lastOp' = "setSustainLevel"
  /\ undisturbed' = FALSE
  /\ UNCHANGED <<SAMPLE_INTERVAL_, amplitudeCoefficient_, phase_, attackTime_,
                 decayTime_>>

\* ==================================================== doodle.moog.Moog
\* The function MasterMixer.turnOn hands to window.setTimeout.
ConnectCallback ==
  /\ pendingConnects > 0
  /\ pendingConnects' = pendingConnects - 1
  /\ connected' = TRUE
  /\ lastOp' = "connect"
  /\ UNCHANGED <<webkitAudioContext, isWebAudioEnabled_, synthesizers_,
                 masterMixer_, disposed_, audioOff, threw>>
  /\ UNCHANGED <<envelope, undisturbed>>

\* turnOnAudio calling turnOn on whatever masterMixer_ holds.
TurnOnAudio_NoGuard ==
  /\ pendingConnects < MaxPendingConnects
  /\ IF masterMixer_ # Undefined
       THEN pendingConnects' = pendingConnects + 1 /\ threw' = threw
       ELSE pendingConnects' = pendingConnects /\ threw' = TRUE
  /\ audioOff' = FALSE
  /\ lastOp' = "turnOnAudio"
  /\ UNCHANGED <<webkitAudioContext, isWebAudioEnabled_, synthesizers_,
                 masterMixer_, connected, disposed_>>
  /\ UNCHANGED <<envelope, undisturbed>>

\* turnOnAudio: MasterMixer.turnOn schedules the connection.
TurnOnAudio ==
  /\ pendingConnects < MaxPendingConnects
  /\ IF masterMixer_ # Undefined
       THEN pendingConnects' = pendingConnects + 1
       ELSE pendingConnects' = pendingConnects
  /\ audioOff' = FALSE
  /\ lastOp' = "turnOnAudio"
  /\ UNCHANGED <<webkitAudioContext, isWebAudioEnabled_, synthesizers_,
                 masterMixer_, connected, disposed_, threw>>
  /\ UNCHANGED <<envelope, undisturbed>>

\* MasterMixer.turnOff: highPassFilterNode_.disconnect().
MasterMixerTurnOff ==
  connected' = (IF masterMixer_ # Undefined THEN FALSE ELSE connected)

\* turnOffAudio that also releases the note being played.
TurnOffAudio_ReleasesNote ==
  /\ MasterMixerTurnOff
  /\ audioOff' = TRUE
  /\ lastOp' = "turnOffAudio"
  /\ UNCHANGED <<webkitAudioContext, isWebAudioEnabled_, synthesizers_,
                 masterMixer_, pendingConnects, disposed_, threw>>
  /\ phase_' = (IF phase_ \in {ATTACK, DECAY, SUSTAIN} THEN RELEASE ELSE phase_)
  /\ UNCHANGED <<SAMPLE_INTERVAL_, amplitudeCoefficient_, attackTime_,
                 attackStep_, decayTime_, decayStep_, sustainLevel_,
                 releaseStep_, undisturbed>>

\* turnOffAudio
TurnOffAudio ==
  /\ MasterMixerTurnOff
  /\ audioOff' = TRUE
  /\ lastOp' = "turnOffAudio"
  /\ UNCHANGED <<webkitAudioContext, isWebAudioEnabled_, synthesizers_,
                 masterMixer_, pendingConnects, disposed_, threw>>
  /\ UNCHANGED <<envelope, undisturbed>>

\* dispose: goog.Disposable runs disposeInternal once, which calls
\* turnOffAudio.
Dispose ==
  /\ IF disposed_ THEN connected' = connected ELSE MasterMixerTurnOff
  /\ disposed_' = TRUE
  /\ audioOff' = TRUE
  /\ lastOp' = "dispose"
  /\ UNCHANGED <<webkitAudioContext, isWebAudioEnabled_, synthesizers_,
                 masterMixer_, pendingConnects, threw>>
  /\ UNCHANGED <<envelope, undisturbed>>

\* ============================================== doodle.moog.Oscillator
\* setWaveForm
SetWaveForm(waveForm) ==
  /\ waveForm_' = waveForm
  /\ UNCHANGED <<range_, pitchBend_, isAcceptingKeyboardPitch_, isFrequencyModulationOn_,
                 isGlideOn_, glideDuration_, activeNote_>>
  /\ UNCHANGED oscRunning

\* setPitchBend
SetPitchBend(bend) ==
  /\ pitchBend_' = bend
  /\ UNCHANGED <<waveForm_, range_, isAcceptingKeyboardPitch_, isFrequencyModulationOn_,
                 isGlideOn_, glideDuration_, activeNote_>>
  /\ UNCHANGED oscRunning

\* setRange
SetRange(range) ==
  /\ range_' = range
  /\ UNCHANGED <<waveForm_, pitchBend_, isAcceptingKeyboardPitch_, isFrequencyModulationOn_,
                 isGlideOn_, glideDuration_, activeNote_>>
  /\ UNCHANGED oscRunning

\* turnOnKeyboardPitchControl
TurnOnKeyboardPitchControl ==
  /\ isAcceptingKeyboardPitch_' = TRUE
  /\ UNCHANGED <<waveForm_, range_, pitchBend_, isFrequencyModulationOn_,
                 isGlideOn_, glideDuration_, activeNote_>>
  /\ UNCHANGED oscRunning

\* turnOffKeyboardPitchControl
TurnOffKeyboardPitchControl ==
  /\ isAcceptingKeyboardPitch_' = FALSE
  /\ UNCHANGED <<waveForm_, range_, pitchBend_, isFrequencyModulationOn_,
                 isGlideOn_, glideDuration_, activeNote_>>
  /\ UNCHANGED oscRunning

\* turnOnFrequencyModulation
TurnOnFrequencyModulation ==
  /\ isFrequencyModulationOn_' = TRUE
  /\ UNCHANGED <<waveForm_, range_, pitchBend_, isAcceptingKeyboardPitch_,
                 isGlideOn_, glideDuration_, activeNote_>>
  /\ UNCHANGED oscRunning

\* turnOffFrequencyModulation
TurnOffFrequencyModulation ==
  /\ isFrequencyModulationOn_' = FALSE
  /\ UNCHANGED <<waveForm_, range_, pitchBend_, isAcceptingKeyboardPitch_,
                 isGlideOn_, glideDuration_, activeNote_>>
  /\ UNCHANGED oscRunning

\* turnOnGlide
TurnOnGlide ==
  /\ isGlideOn_' = TRUE
  /\ UNCHANGED <<waveForm_, range_, pitchBend_, isAcceptingKeyboardPitch_,
                 isFrequencyModulationOn_, glideDuration_, activeNote_>>
  /\ UNCHANGED oscRunning

\* turnOffGlide
TurnOffGlide ==
  /\ isGlideOn_' = FALSE
  /\ UNCHANGED <<waveForm_, range_, pitchBend_, isAcceptingKeyboardPitch_,
                 isFrequencyModulationOn_, glideDuration_, activeNote_>>
  /\ UNCHANGED oscRunning

\* setGlideDuration
SetGlideDuration(time) ==
  /\ glideDuration_' = time
  /\ UNCHANGED <<waveForm_, range_, pitchBend_, isAcceptingKeyboardPitch_,
                 isFrequencyModulationOn_, isGlideOn_, activeNote_>>
  /\ UNCHANGED oscRunning

\* setActiveNote that keeps the note it had.
SetActiveNote_KeepNote(note) ==
  /\ activeNote_' = activeNote_
  /\ UNCHANGED <<waveForm_, range_, pitchBend_, isAcceptingKeyboardPitch_,
                 isFrequencyModulationOn_, isGlideOn_, glideDuration_>>
  /\ UNCHANGED oscRunning

\* setActiveNote
SetActiveNote(note) ==
  /\ activeNote_' = note
  /\ UNCHANGED <<waveForm_, range_, pitchBend_, isAcceptingKeyboardPitch_,
                 isFrequencyModulationOn_, isGlideOn_, glideDuration_>>
  /\ UNCHANGED oscRunning

\* setVolume
SetVolume(volume) ==
  /\ volume_' = volume
  /\ UNCHANGED <<IS_MODULATOR_, modulatorLevel_, modulatorSignal, fillMode,
                 mixDivisor, right, modulatorInput>>
  /\ UNCHANGED <<oscParams, oscRunning>>

\* setModulatorLevel
SetModulatorLevel(modulatorLevel) ==
  /\ modulatorLevel_' = modulatorLevel
  /\ UNCHANGED <<volume_, IS_MODULATOR_, modulatorSignal, fillMode,
                 mixDivisor, right, modulatorInput>>
  /\ UNCHANGED <<oscParams, oscRunning>>

\* getInstantaneousFrequency_ with an octave of 11 semitones.
GetInstantaneousFrequency_WrongOctave(note, range, isAcceptingKeyboardPitch) ==
  LET n == IF isAcceptingKeyboardPitch THEN note ELSE 0
      semitones == n + NOTE_OFFSET_
  IN  <<Mul(Mul(FromInt(BASE_FREQUENCY_), range), Pow2(semitones \div 11)),
        semitones % 11>>

\* getInstantaneousFrequency_ that follows the keyboard whether or not
\* keyboard pitch control is on.
GetInstantaneousFrequency_AlwaysTracking(note, range, isAcceptingKeyboardPitch) ==
  LET semitones == note + NOTE_OFFSET_
  IN  <<Mul(Mul(FromInt(BASE_FREQUENCY_), range), Pow2(semitones \div 12)),
        semitones % 12>>

\* getInstantaneousFrequency_ without the offset of the keyboard.
GetInstantaneousFrequency_NoOffset(note, range, isAcceptingKeyboardPitch) ==
  LET n == IF isAcceptingKeyboardPitch THEN note ELSE 0
  IN  <<Mul(Mul(FromInt(BASE_FREQUENCY_), range), Pow2(n \div 12)), n % 12>>

\* getInstantaneousFrequency_: BASE_FREQUENCY_ * range_ *
\* Math.pow(2, (note + NOTE_OFFSET_) / 12), as the pair <<c, e>> that stands
\* for c * 2^(e/12), c rational and e in 0..11.
GetInstantaneousFrequency(note, range, isAcceptingKeyboardPitch) ==
  LET n == IF isAcceptingKeyboardPitch THEN note ELSE 0
      semitones == n + NOTE_OFFSET_
  IN  <<Mul(Mul(FromInt(BASE_FREQUENCY_), range), Pow2(semitones \div 12)),
        semitones % 12>>

\* The frequency <<c, e>> is a rational number of hertz.
IsRational(f) == f[2] = 0

Hertz(f) == f[1]

\* getPitchBend_
GetPitchBend(bend, isAcceptingKeyboardPitch) ==
  LET pitchBendScale ==
        IF isAcceptingKeyboardPitch THEN MAJOR_SIXTH_FREQUENCY_RATIO_
        ELSE THREE_OCTAVE_FREQUENCY_RATIO_
      normalizedPitchBend ==
        Add(RatAbs(Mul(bend, Sub(pitchBendScale, One))), One)
  IN  IF Geq(bend, Zero) THEN normalizedPitchBend
      ELSE Quot(One, normalizedPitchBend)

\* Math.abs of a number or null.
AbsOrZero(x) == IF x = Null THEN Zero ELSE RatAbs(x)

\* getGlideFrequency_ that glides whether or not glide is on.
GetGlideFrequency_IgnoreSwitch(isGlideOn, current, targetGlide, delta, duration, interval, target) ==
  IF \/ current = Null
     \/ Leq(duration, Zero)
     \/ Leq(RatAbs(Sub(current, target)), AbsOrZero(delta))
    THEN [current |-> target, targetGlide |-> target, delta |-> delta,
          frequency |-> target]
    ELSE LET glideDelta ==
               IF targetGlide # target
                 THEN Quot(Sub(target, current), Quot(duration, interval))
                 ELSE delta
         IN  [current |-> Add(current, glideDelta), targetGlide |-> target,
              delta |-> glideDelta, frequency |-> Add(current, glideDelta)]

\* getGlideFrequency_: the new glide state and the frequency returned.
GetGlideFrequency(isGlideOn, current, targetGlide, delta, duration, interval, target) ==
  IF \/ ~isGlideOn
     \/ current = Null
     \/ Leq(duration, Zero)
     \/ Leq(RatAbs(Sub(current, target)), AbsOrZero(delta))
    THEN [current |-> target, targetGlide |-> target, delta |-> delta,
          frequency |-> target]
    ELSE LET glideDelta ==
               IF targetGlide # target
                 THEN Quot(Sub(target, current), Quot(duration, interval))
                 ELSE delta
         IN  [current |-> Add(current, glideDelta), targetGlide |-> target,
              delta |-> glideDelta, frequency |-> Add(current, glideDelta)]

\* getModulationFrequency_ that modulates whether or not the frequency
\* modulation is on.
GetModulationFrequency_IgnoreSwitch(baseFrequency, signal, isFrequencyModulationOn) ==
  IF signal = Null THEN baseFrequency
  ELSE Mul(Add(Mul(signal, Rat(3, 4)), Rat(5, 4)), baseFrequency)

\* getModulationFrequency_
GetModulationFrequency(baseFrequency, signal, isFrequencyModulationOn) ==
  IF signal = Null \/ ~isFrequencyModulationOn THEN baseFrequency
  ELSE Mul(Add(Mul(signal, Rat(3, 4)), Rat(5, 4)), baseFrequency)

\* advancedPhase_: the progress returned and the new phase.
AdvancedPhase(phase, f, interval) ==
  LET cycleLengthInSeconds == Quot(FromInt(2), f)
      wrapped ==
        IF Less(cycleLengthInSeconds, phase)
          THEN Sub(phase, cycleLengthInSeconds)
          ELSE phase
  IN  [progress |-> Quot(Mul(wrapped, f), FromInt(2)),
       phase |-> Add(wrapped, interval)]

\* audioLevel without the volume.
AudioLevel_NoVolume(level, volume, envelopeCoefficient) ==
  Mul(level, envelopeCoefficient)

\* audioLevel = level * this.volume_ * envelopeCoefficient
AudioLevel(level, volume, envelopeCoefficient) ==
  Mul(Mul(level, volume), envelopeCoefficient)

\* FilledSample that mixes without dividing.
FilledSample_MixUndivided(mode, held, audioLevel, divisor) ==
  IF mode = "CLOBBER" THEN audioLevel
  ELSE Add(held, audioLevel)

\* right[i] after the oscillator has filled it in the given mode, from what
\* it held before; every mode but CLOBBER and ADD is MIX.
FilledSample(mode, held, audioLevel, divisor) ==
  IF mode = "CLOBBER" THEN audioLevel
  ELSE IF mode = "ADD" THEN Add(held, audioLevel)
  ELSE Quot(Add(held, audioLevel), divisor)

\* modulatorSignal[i] taken after the volume and the envelope.
ModulatorSample_PostVolume(level, modulatorLevel, volume, envelopeCoefficient) ==
  Mul(AudioLevel(level, volume, envelopeCoefficient), modulatorLevel)

\* this.modulatorSignal[i] = level * this.modulatorLevel_, where the volume
\* and the envelope coefficient of the sample are at hand.
ModulatorSample(level, modulatorLevel, volume, envelopeCoefficient) ==
  Mul(level, modulatorLevel)

\* The switch on waveForm_ in fillAudioBuffer.
WaveLevel(waveForm, progress) ==
  CASE waveForm = "TRIANGLE" ->
         Mul(FromInt(4),
             Sub(IF Less(Rat(1, 2), progress) THEN Sub(One, progress)
                 ELSE progress,
                 Rat(1, 4)))
    [] waveForm = "SAWANGLE" ->
         IF Less(progress, Rat(1, 2))
           THEN Sub(Mul(FromInt(4), progress), One)
           ELSE Add(Mul(FromInt(0 - 2), progress), One)
    [] waveForm = "RAMP" -> Mul(FromInt(2), Sub(progress, Rat(1, 2)))
    [] waveForm = "REVERSE_RAMP" ->
         Mul(FromInt(0 - 2), Sub(progress, Rat(1, 2)))
    [] waveForm = "SQUARE" ->
         IF Less(progress, Rat(1, 2)) THEN One ELSE FromInt(0 - 1)
    [] waveForm = "FAT_PULSE" ->
         IF Less(progress, Rat(1, 3)) THEN One ELSE FromInt(0 - 1)
    [] waveForm = "PULSE" ->
         IF Less(progress, Rat(1, 4)) THEN One ELSE FromInt(0 - 1)

\* One pass of the loop of fillAudioBuffer, for the modulator sample
\* signal; the first pass of a buffer follows the computation of the
\* buffer's target frequency and pitch bend.  The model follows the
\* frequencies that are rational numbers.
FillAudioBufferSample(signal) ==
  LET target ==
        IF bufferIndex = 0
          THEN GetInstantaneousFrequency(activeNote_, range_,
                                         isAcceptingKeyboardPitch_)
          ELSE targetFrequency
      bend ==
        IF bufferIndex = 0
          THEN GetPitchBend(pitchBend_, isAcceptingKeyboardPitch_)
          ELSE pitchBend
      glide ==
        GetGlideFrequency(isGlideOn_, currentGlidePitch_, targetGlidePitch_,
                          glideDelta_, glideDuration_, SAMPLE_INTERVAL_,
                          Hertz(target))
      f == Mul(bend, GetModulationFrequency(glide.frequency, signal,
                                            isFrequencyModulationOn_))
      advanced == AdvancedPhase(oscillatorPhase_, f, SAMPLE_INTERVAL_)
      level == WaveLevel(waveForm_, advanced.progress)
      i == bufferIndex + 1
      allocated ==
        IF modulatorSignal = NoBuffer THEN Float32Array ELSE modulatorSignal
  IN  /\ IsRational(target)
      /\ GetNextAmplitudeCoefficient
      /\ targetFrequency' = target
      /\ pitchBend' = bend
      /\ currentGlidePitch_' = glide.current
      /\ targetGlidePitch_' = glide.targetGlide
      /\ glideDelta_' = glide.delta
      /\ glideFrequency' = glide.frequency
      /\ frequency' = f
      /\ oscillatorPhase_' = advanced.phase
      /\ progressInCycle' = advanced.progress
      /\ waveLevel' = level
      /\ modulatorSignal' =
           IF IS_MODULATOR_
             THEN [allocated EXCEPT
                     ![i] = ModulatorSample(level, modulatorLevel_, volume_,
                                            amplitudeCoefficient_')]
             ELSE modulatorSignal
      /\ right' =
           [right EXCEPT
              ![i] = FilledSample(fillMode, right[i],
                                  AudioLevel(level, volume_,
                                             amplitudeCoefficient_'),
                                  mixDivisor)]
      /\ bufferIndex' = (bufferIndex + 1) % BufferLength
      /\ UNCHANGED oscParams
      /\ UNCHANGED <<mixParams, fillMode, mixDivisor, modulatorInput>>

\* The computation of the target frequency and of the pitch bend that
\* opens fillAudioBuffer.
GetTargetFrequency ==
  /\ bufferIndex = 0
  /\ targetFrequency' =
       GetInstantaneousFrequency(activeNote_, range_,
                                 isAcceptingKeyboardPitch_)
  /\ pitchBend' = GetPitchBend(pitchBend_, isAcceptingKeyboardPitch_)
  /\ UNCHANGED oscParams
  /\ UNCHANGED <<oscillatorPhase_, glideDelta_, currentGlidePitch_,
                 targetGlidePitch_, bufferIndex, glideFrequency, frequency,
                 progressInCycle, waveLevel>>
  /\ UNCHANGED oscOutput

\* ---------------------------------------------------------- specification
\* The history of a startAttack called in RELEASE, kept for one step, and
\* the samples counted since a release began.
EnvelopeHistory ==
  /\ releasedAmplitude' =
       IF lastOp' = "startAttack" /\ phase_ = RELEASE
         THEN amplitudeCoefficient_
         ELSE NoAmplitude
  /\ releaseSamples' =
       IF /\ lastOp' = "startRelease"
          /\ phase_ \in {ATTACK, DECAY, SUSTAIN}
          /\ Less(Zero, amplitudeCoefficient_)
         THEN Zero
       ELSE IF phase_ = RELEASE /\ releaseSamples # Null
         THEN IF lastOp' = "sample" THEN Add(releaseSamples, One)
              ELSE IF lastOp' = "startRelease" THEN releaseSamples
              ELSE Null
       ELSE Null
  /\ UNCHANGED arithmetic

\* A call on the envelope generator leaves the rest of the doodle alone.
EnvelopeCall ==
  /\ EnvelopeHistory
  /\ UNCHANGED moogVars
  /\ UNCHANGED filterVars
  /\ UNCHANGED oscVars

Next ==
  \/ StartAttack /\ EnvelopeCall
  \/ StartRelease /\ EnvelopeCall
  \/ GetNextAmplitudeCoefficient /\ EnvelopeCall
  \/ \E time \in Times : SetAttackTime(time) /\ EnvelopeCall
  \/ \E time \in Times : SetDecayTime(time) /\ EnvelopeCall
  \/ \E level \in Levels : SetSustainLevel(level) /\ EnvelopeCall

Spec == Init /\ [][Next]_vars

\* The render loop keeps pulling samples at the device rate.
FairSpec == Spec /\ WF_vars(GetNextAmplitudeCoefficient /\ EnvelopeCall)

\* The doodle as src/moog.js builds it: the oscillators' envelopes get
\* attack time 0, decay time 0.4 and sustain level 1, and are driven by the
\* keys once a synthesizer exists.
MoogInit ==
  /\ arithmetic = "exact"
  /\ \E context \in AudioContexts : MoogConstructed(context)
  /\ SAMPLE_INTERVAL_ = Rat(1, MoogSampleRate)
  /\ amplitudeCoefficient_ = Zero
  /\ phase_ = INACTIVE
  /\ attackTime_ = Zero
  /\ decayTime_ = Rat(2, 5)
  /\ sustainLevel_ = One
  /\ attackStep_ = AttackStepFor(SAMPLE_INTERVAL_, attackTime_)
  /\ decayStep_ = DecayStepFor(SAMPLE_INTERVAL_, decayTime_, sustainLevel_)
  /\ releaseStep_ =
       SustainReleaseStepFor(SAMPLE_INTERVAL_, decayTime_, sustainLevel_)
  /\ lastOp = "new"
  /\ undisturbed = FALSE
  /\ releasedAmplitude = NoAmplitude
  /\ releaseSamples = Null
  /\ OscillatorConstructed("SQUARE", One, Zero, TRUE, Rat(1, 20))
  /\ OutputConstructed(Rat(23, 50), FALSE, Zero)
  /\ SynthesizerConstructed
  /\ LowPassFilterConstructed(FromInt(2100), FromInt(7), Zero, Rat(4, 5), Zero)

\* A call on the doodle leaves the oscillators alone.
MoogCall ==
  /\ EnvelopeHistory
  /\ UNCHANGED oscVars
  /\ UNCHANGED filterVars

MoogNext ==
  \/ TurnOnAudio /\ MoogCall
  \/ TurnOffAudio /\ MoogCall
  \/ Dispose /\ MoogCall
  \/ ConnectCallback /\ MoogCall
  \/ synthesizers_ > 0 /\ StartAttack /\ EnvelopeCall
  \/ synthesizers_ > 0 /\ StartRelease /\ EnvelopeCall
  \/ synthesizers_ > 0 /\ GetNextAmplitudeCoefficient /\ EnvelopeCall

MoogSpec == MoogInit /\ [][MoogNext]_vars

\* ------------------------------------------------ the oscillator's specs
RECURSIVE ModCycle(_, _)
\* The time t counted within a cycle of length c > 0.
ModCycle(t, c) == IF Less(t, c) THEN t ELSE ModCycle(Sub(t, c), c)

\* The history of the frequency played.
SteadyHistory ==
  /\ steady' = (steady /\ (frequency = Null \/ frequency' = frequency))
  /\ cycleTime' =
       IF steady' /\ Less(Zero, frequency')
         THEN ModCycle(Add(cycleTime, SAMPLE_INTERVAL_),
                       Quot(FromInt(2), frequency'))
         ELSE Zero

\* The samples a change of the target frequency takes: ceil(D/T) with glide
\* on and a glide duration D > 0.
GlideLength ==
  IF isGlideOn_ /\ Less(Zero, glideDuration_)
    THEN Ceil(Quot(glideDuration_, SAMPLE_INTERVAL_))
    ELSE 1

\* The history of the last change of the target frequency.
GlideHistory ==
  IF targetFrequency # NoFrequency /\ targetFrequency' # targetFrequency
    THEN glideStart' = currentGlidePitch_ /\ glideSamples' = 1
  ELSE IF glideStart # Null /\ glideSamples < GlideLength
    THEN glideStart' = glideStart /\ glideSamples' = glideSamples + 1
  ELSE glideStart' = Null /\ glideSamples' = 0

\* A sample of the oscillator leaves the doodle and the keys alone.
SampleHistory ==
  /\ EnvelopeHistory
  /\ SteadyHistory
  /\ GlideHistory
  /\ UNCHANGED moogVars
  /\ UNCHANGED filterVars
  /\ UNCHANGED keyVars

\* A sample taken outside the passes of a synthesizer.
SampleTaken ==
  /\ SampleHistory
  /\ UNCHANGED passVars

\* A setter of the oscillator is called between two buffers and leaves the
\* envelope and the doodle alone.
OscillatorCall(op) ==
  /\ bufferIndex = 0
  /\ lastOp' = op
  /\ EnvelopeHistory
  /\ UNCHANGED <<envelope, undisturbed>>
  /\ UNCHANGED moogVars
  /\ UNCHANGED filterVars
  /\ UNCHANGED oscHistory
  /\ UNCHANGED oscOutput
  /\ UNCHANGED <<keyVars, passVars>>

\* A setter of the glide ends the history of the change in progress.
GlideCall(op) ==
  /\ bufferIndex = 0
  /\ lastOp' = op
  /\ EnvelopeHistory
  /\ UNCHANGED <<envelope, undisturbed>>
  /\ UNCHANGED moogVars
  /\ UNCHANGED filterVars
  /\ UNCHANGED <<steady, cycleTime>>
  /\ UNCHANGED oscOutput
  /\ UNCHANGED <<keyVars, passVars>>
  /\ glideStart' = Null
  /\ glideSamples' = 0

\* An oscillator as src/moog.js builds it, but for the sample rate, the
\* glide and the range: attack time 0, decay time 0.4 and sustain level 1.
OscillatorInit(isGlideOn, glideTime) ==
  /\ arithmetic = "exact"
  /\ SAMPLE_INTERVAL_ \in OscIntervals
  /\ amplitudeCoefficient_ = Zero
  /\ phase_ = INACTIVE
  /\ attackTime_ = Zero
  /\ decayTime_ = Rat(2, 5)
  /\ sustainLevel_ = One
  /\ attackStep_ = AttackStepFor(SAMPLE_INTERVAL_, attackTime_)
  /\ decayStep_ = DecayStepFor(SAMPLE_INTERVAL_, decayTime_, sustainLevel_)
  /\ releaseStep_ =
       SustainReleaseStepFor(SAMPLE_INTERVAL_, decayTime_, sustainLevel_)
  /\ lastOp = "new"
  /\ undisturbed = FALSE
  /\ releasedAmplitude = NoAmplitude
  /\ releaseSamples = Null
  /\ MoogConstructed("ok")
  /\ OscillatorConstructed("SQUARE", One, Zero, isGlideOn, glideTime)
  /\ OutputConstructed(Rat(23, 50), FALSE, Zero)
  /\ SynthesizerConstructed
  /\ LowPassFilterConstructed(FromInt(2100), FromInt(7), Zero, Rat(4, 5), Zero)

\* The oscillator without glide: the note, the pitch bend, the wave form and
\* the frequency modulation change between the buffers.
OscInit == OscillatorInit(FALSE, Zero)

OscNext ==
  \/ \E signal \in ModulatorSignals :
       FillAudioBufferSample(signal) /\ SampleTaken
  \/ \E note \in OctaveNotes :
       SetActiveNote(note) /\ OscillatorCall("setActiveNote")
  \/ \E bend \in PitchBends :
       SetPitchBend(bend) /\ OscillatorCall("setPitchBend")
  \/ \E waveForm \in WaveForm :
       SetWaveForm(waveForm) /\ OscillatorCall("setWaveForm")
  \/ TurnOnFrequencyModulation /\ OscillatorCall("turnOnFrequencyModulation")
  \/ TurnOffFrequencyModulation
       /\ OscillatorCall("turnOffFrequencyModulation")

OscSpec == OscInit /\ [][OscNext]_vars

\* The oscillator with its glide, and no modulator.
GlideInit ==
  \E isGlideOn \in BOOLEAN, glideTime \in GlideDurations :
    OscillatorInit(isGlideOn, glideTime)

GlideNext ==
  \/ FillAudioBufferSample(Null) /\ SampleTaken
  \/ \E note \in OctaveNotes :
       SetActiveNote(note) /\ OscillatorCall("setActiveNote")
  \/ \E range \in Ranges : SetRange(range) /\ OscillatorCall("setRange")
  \/ TurnOnGlide /\ GlideCall("turnOnGlide")
  \/ TurnOffGlide /\ GlideCall("turnOffGlide")
  \/ \E time \in GlideDurations :
       SetGlideDuration(time) /\ GlideCall("setGlideDuration")

GlideSpec == GlideInit /\ [][GlideNext]_vars

\* Glide durations of one and of two of the shortest sample intervals.
ShortGlideDurations == {Rat(1, TicksPerSecond), Rat(2, TicksPerSecond)}

\* The oscillator with its glide always on and glide durations around one
\* sample interval, also below it.
ShortGlideInit == OscillatorInit(TRUE, Rat(1, TicksPerSecond))

ShortGlideNext ==
  \/ FillAudioBufferSample(Null) /\ SampleTaken
  \/ \E note \in OctaveNotes :
       SetActiveNote(note) /\ OscillatorCall("setActiveNote")
  \/ \E range \in Ranges : SetRange(range) /\ OscillatorCall("setRange")
  \/ \E time \in ShortGlideDurations :
       SetGlideDuration(time) /\ GlideCall("setGlideDuration")

ShortGlideSpec == ShortGlideInit /\ [][ShortGlideNext]_vars

\* The caller of fillAudioBuffer passes the output buffer of the audio
\* process event, a fill mode and, with FillMode.MIX, a divisor.
PassOutputBuffer(buffer, mode, divisor) ==
  /\ bufferIndex = 0
  /\ right' = buffer
  /\ fillMode' = mode
  /\ mixDivisor' = IF mode = "MIX" THEN divisor ELSE Null
  /\ UNCHANGED <<mixParams, modulatorSignal, modulatorInput>>
  /\ UNCHANGED <<oscParams, oscRunning>>

\* A call that changes the output of the oscillator or its arguments,
\* between two buffers.
OutputCall(op) ==
  /\ bufferIndex = 0
  /\ lastOp' = op
  /\ EnvelopeHistory
  /\ UNCHANGED <<envelope, undisturbed>>
  /\ UNCHANGED moogVars
  /\ UNCHANGED filterVars
  /\ UNCHANGED oscHistory
  /\ UNCHANGED <<keyVars, passVars>>

\* An oscillator with every wave form, whose envelope opens and closes
\* within one sample.
OutputInit(isModulator, modulatorLevel) ==
  /\ arithmetic = "exact"
  /\ SAMPLE_INTERVAL_ = Rat(2, TicksPerSecond)
  /\ amplitudeCoefficient_ = Zero
  /\ phase_ = INACTIVE
  /\ attackTime_ = Zero
  /\ decayTime_ = Zero
  /\ sustainLevel_ = One
  /\ attackStep_ = AttackStepFor(SAMPLE_INTERVAL_, attackTime_)
  /\ decayStep_ = DecayStepFor(SAMPLE_INTERVAL_, decayTime_, sustainLevel_)
  /\ releaseStep_ =
       SustainReleaseStepFor(SAMPLE_INTERVAL_, decayTime_, sustainLevel_)
  /\ lastOp = "new"
  /\ undisturbed = FALSE
  /\ releasedAmplitude = NoAmplitude
  /\ releaseSamples = Null
  /\ MoogConstructed("ok")
  /\ \E waveForm \in WaveForm :
       OscillatorConstructed(waveForm, One, Zero, FALSE, Zero)
  /\ OutputConstructed(One, isModulator, modulatorLevel)
  /\ SynthesizerConstructed
  /\ LowPassFilterConstructed(FromInt(2100), FromInt(7), Zero, Rat(4, 5), Zero)

\* The output of the oscillator: a played note is mixed into the buffers the
\* caller passes.
FillInit == OutputInit(FALSE, Zero)

\* Every call of fillAudioBuffer starts with the buffer, the fill mode and
\* the divisor the caller passes.
FillNext ==
  \/ /\ bufferIndex = 0 => lastOp = "fillAudioBuffer"
     /\ FillAudioBufferSample(Null)
     /\ SampleTaken
  \/ \E buffer \in HeldBuffers, mode \in FillMode,
        divisor \in MixDivisors :
       PassOutputBuffer(buffer, mode, divisor) /\ OutputCall("fillAudioBuffer")
  \/ \E volume \in Volumes : SetVolume(volume) /\ OutputCall("setVolume")
  \/ \E note \in OctaveNotes :
       SetActiveNote(note) /\ OscillatorCall("setActiveNote")
  \/ \E range \in Ranges : SetRange(range) /\ OscillatorCall("setRange")
  \/ bufferIndex = 0 /\ StartAttack /\ EnvelopeCall
  \/ bufferIndex = 0 /\ StartRelease /\ EnvelopeCall

FillSpec == FillInit /\ [][FillNext]_vars

\* The oscillator as a modulator: it fills its modulator buffer while its
\* note, range, volume and modulator level change and its keys are pressed
\* and released.
ModulatorInit ==
  \E modulatorLevel \in ModulatorLevels : OutputInit(TRUE, modulatorLevel)

ModulatorNext ==
  \/ FillAudioBufferSample(Null) /\ SampleTaken
  \/ \E volume \in Volumes : SetVolume(volume) /\ OutputCall("setVolume")
  \/ \E modulatorLevel \in ModulatorLevels :
       SetModulatorLevel(modulatorLevel) /\ OutputCall("setModulatorLevel")
  \/ \E note \in OctaveNotes :
       SetActiveNote(note) /\ OscillatorCall("setActiveNote")
  \/ \E range \in Ranges : SetRange(range) /\ OscillatorCall("setRange")
  \/ bufferIndex = 0 /\ StartAttack /\ EnvelopeCall
  \/ bufferIndex = 0 /\ StartRelease /\ EnvelopeCall

ModulatorSpec == ModulatorInit /\ [][ModulatorNext]_vars

\* The frequency modulation of the oscillator: the modulator buffer passed
\* is null or holds what a modulator wrote, and the modulation is switched
\* on and off between the buffers.
ModulationInit == OscillatorInit(FALSE, Zero)

\* The caller of fillAudioBuffer passes a modulator buffer, null or not; a
\* buffer that is not null holds a sample for every index.
PassModulatorSignal(signal) ==
  /\ bufferIndex = 0 \/ (signal # Null /\ modulatorInput # Null)
  /\ modulatorInput' = signal
  /\ UNCHANGED <<mixParams, modulatorSignal, fillMode, mixDivisor, right>>
  /\ UNCHANGED <<oscParams, oscRunning>>

\* A call that passes an argument of fillAudioBuffer, within a buffer.
ArgumentPassed(op) ==
  /\ lastOp' = op
  /\ EnvelopeHistory
  /\ UNCHANGED <<envelope, undisturbed>>
  /\ UNCHANGED moogVars
  /\ UNCHANGED filterVars
  /\ UNCHANGED oscHistory
  /\ UNCHANGED <<keyVars, passVars>>

ModulationNext ==
  \/ FillAudioBufferSample(modulatorInput) /\ SampleTaken
  \/ \E signal \in FillSignals :
       PassModulatorSignal(signal) /\ ArgumentPassed("fillAudioBuffer")
  \/ \E note \in OctaveNotes :
       SetActiveNote(note) /\ OscillatorCall("setActiveNote")
  \/ TurnOnFrequencyModulation /\ OscillatorCall("turnOnFrequencyModulation")
  \/ TurnOffFrequencyModulation
       /\ OscillatorCall("turnOffFrequencyModulation")

ModulationSpec == ModulationInit /\ [][ModulationNext]_vars

\* ------------------------------------------------ doodle.moog.Synthesizer
\* The keyboard notes the keys send.
KeyNotes == {0, 0 - NOTE_OFFSET_, MaxNote}

\* Every oscillator's envelope gets the trigger.
Triggered(trigger) ==
  oscillatorTriggers' =
    [o \in 1..Oscillators |-> Append(oscillatorTriggers[o], trigger)]

\* setKeyDown(note): the note becomes the active note of the oscillators,
\* and when no key was down the envelopes of the oscillators and the
\* contour of the filter start their attack.
SetKeyDown(note) ==
  /\ bufferIndex = 0
  /\ Len(keyCalls) < MaxKeyCalls
  /\ keyCalls' = Append(keyCalls, <<"setKeyDown", note>>)
  /\ SetActiveNote(note)
  /\ noteActive' = TRUE
  /\ IF ~noteActive
       THEN /\ StartAttack
            /\ Triggered("startAttack")
            /\ contourTriggers' = Append(contourTriggers, "startAttack")
       ELSE /\ UNCHANGED <<envelope, lastOp, undisturbed>>
            /\ UNCHANGED <<oscillatorTriggers, contourTriggers>>

\* setKeyUp(): the envelopes of the oscillators start their release.
SetKeyUp ==
  /\ bufferIndex = 0
  /\ Len(keyCalls) < MaxKeyCalls
  /\ keyCalls' = Append(keyCalls, <<"setKeyUp", 0>>)
  /\ StartRelease
  /\ noteActive' = FALSE
  /\ Triggered("startRelease")
  /\ UNCHANGED contourTriggers
  /\ UNCHANGED <<oscParams, oscRunning>>

\* A key of the synthesizer leaves the doodle, the buffers and the passes
\* alone.
KeyCall ==
  /\ EnvelopeHistory
  /\ UNCHANGED moogVars
  /\ UNCHANGED filterVars
  /\ UNCHANGED <<oscHistory, oscOutput, passVars>>

\* The keys of the synthesizer src/moog.js builds.
SynthInit == OscillatorInit(TRUE, Rat(1, 20))

SynthNext ==
  \/ \E note \in KeyNotes : SetKeyDown(note) /\ KeyCall
  \/ SetKeyUp /\ KeyCall

SynthSpec == SynthInit /\ [][SynthNext]_vars

\* The oscillator whose buffer was filled gives way to the next one of
\* PassOrder; after the last one the next pass begins.
NextInPass ==
  /\ passPosition' = (passPosition % Len(PassOrder)) + 1
  /\ pass' = IF passPosition = Len(PassOrder) THEN pass + 1 ELSE pass

\* The modulator takes a sample of its buffer, in its turn.
ModulatorFills ==
  /\ pass <= MaxPasses
  /\ PassOrder[passPosition] = "modulator"
  /\ FillAudioBufferSample(Null)
  /\ writtenInPass' = [writtenInPass EXCEPT ![bufferIndex + 1] = pass]
  /\ IF bufferIndex' = 0 THEN NextInPass
     ELSE UNCHANGED <<pass, passPosition>>
  /\ UNCHANGED <<readIndex, modulatorRead, readFromPass>>

\* An oscillator with frequency modulation on takes a sample of its buffer,
\* in its turn: getModulationFrequency_ reads the modulator buffer at the
\* index of the sample, unless the buffer is null.
CarrierReads ==
  /\ pass <= MaxPasses
  /\ PassOrder[passPosition] = "carrier"
  /\ modulatorRead' =
       IF modulatorSignal = NoBuffer THEN Null
       ELSE modulatorSignal[readIndex + 1]
  /\ readFromPass' =
       IF modulatorSignal = NoBuffer THEN 0 ELSE writtenInPass[readIndex + 1]
  /\ readIndex' = (readIndex + 1) % BufferLength
  /\ IF readIndex' = 0 THEN NextInPass
     ELSE UNCHANGED <<pass, passPosition>>
  /\ lastOp' = "getModulationFrequency"
  /\ UNCHANGED writtenInPass
  /\ UNCHANGED <<envelope, undisturbed>>
  /\ UNCHANGED <<oscParams, oscRunning, oscHistory, oscOutput>>

\* The passes of a synthesizer over a modulator and an oscillator that reads
\* its buffer; the note changes between two buffers.
PassInit == OutputInit(TRUE, Rat(3, 5))

PassNext ==
  \/ ModulatorFills /\ SampleHistory
  \/ CarrierReads /\ EnvelopeHistory /\ UNCHANGED moogVars
       /\ UNCHANGED filterVars
       /\ UNCHANGED keyVars
  \/ \E note \in OctaveNotes :
       readIndex = 0 /\ SetActiveNote(note)
         /\ OscillatorCall("setActiveNote")

PassSpec == PassInit /\ [][PassNext]_vars

\* A call on the low-pass filter, or a step of the clock, leaves the
\* oscillators, their envelopes and the doodle alone.
FilterCall(op) ==
  /\ lastOp' = op
  /\ EnvelopeHistory
  /\ UNCHANGED <<envelope, undisturbed>>
  /\ UNCHANGED moogVars
  /\ UNCHANGED oscVars

\* The low-pass filter under every call, at every time of the clock.
FilterInit == OscillatorInit(FALSE, Zero)

FilterNext ==
  \/ LowPassFilterStartAttack /\ FilterCall("LowPassFilter.startAttack")
  \/ \E cutoffFrequency \in Cutoffs :
       SetCutoffFrequency(cutoffFrequency) /\ FilterCall("setCutoffFrequency")
  \/ \E contour \in Contours :
       SetContour(contour) /\ FilterCall("setContour")
  \/ \E time \in ContourTimes :
       SetContourAttackTime(time) /\ FilterCall("setContourAttackTime")
  \/ \E time \in ContourTimes :
       SetContourDecayTime(time) /\ FilterCall("setContourDecayTime")
  \/ \E level \in ContourLevels :
       SetContourSustainLevel(level) /\ FilterCall("setContourSustainLevel")
  \/ AdvanceTime /\ FilterCall("currentTime")

FilterSpec == FilterInit /\ [][FilterNext]_vars

\* Sustain levels that are binary fractions.
DoubleLevels == {Rat(k, 8) : k \in 1..8}

\* The envelope generator in double arithmetic: a note is held at each
\* sustain level and at the amplitudes of its decay, and released with each
\* decay time.
DoubleInit ==
  /\ arithmetic = "double"
  /\ SAMPLE_INTERVAL_ \in Intervals
  /\ amplitudeCoefficient_ = Zero
  /\ phase_ = INACTIVE
  /\ attackTime_ = Zero
  /\ decayTime_ = Zero
  /\ sustainLevel_ \in DoubleLevels
  /\ attackStep_ = AttackStepFor(SAMPLE_INTERVAL_, attackTime_)
  /\ decayStep_ = DecayStepFor(SAMPLE_INTERVAL_, decayTime_, sustainLevel_)
  /\ releaseStep_ =
       SustainReleaseStepFor(SAMPLE_INTERVAL_, decayTime_, sustainLevel_)
  /\ lastOp = "new"
  /\ undisturbed = FALSE
  /\ releasedAmplitude = NoAmplitude
  /\ releaseSamples = Null
  /\ MoogConstructed("ok")
  /\ OscillatorConstructed("SQUARE", One, Zero, FALSE, Zero)
  /\ OutputConstructed(Rat(23, 50), FALSE, Zero)
  /\ SynthesizerConstructed
  /\ LowPassFilterConstructed(FromInt(2100), FromInt(7), Zero, Rat(4, 5), Zero)

DoubleNext ==
  \/ StartAttack /\ EnvelopeCall
  \/ StartRelease /\ EnvelopeCall
  \/ GetNextAmplitudeCoefficient /\ EnvelopeCall
  \/ \E time \in Times : SetDecayTime(time) /\ EnvelopeCall

DoubleSpec == DoubleInit /\ [][DoubleNext]_vars

\* The pitch of the oscillator: every note, with and without keyboard
\* pitch control.
PitchInit == OscillatorInit(FALSE, Zero)

PitchNext ==
  \/ GetTargetFrequency /\ OscillatorCall("getInstantaneousFrequency")
  \/ \E note \in Notes :
       SetActiveNote(note) /\ OscillatorCall("setActiveNote")
  \/ \E range \in Ranges : SetRange(range) /\ OscillatorCall("setRange")
  \/ \E bend \in PitchBends :
       SetPitchBend(bend) /\ OscillatorCall("setPitchBend")
  \/ TurnOnKeyboardPitchControl
       /\ OscillatorCall("turnOnKeyboardPitchControl")
  \/ TurnOffKeyboardPitchControl
       /\ OscillatorCall("turnOffKeyboardPitchControl")

PitchSpec == PitchInit /\ [][PitchNext]_vars

TypeOK ==
  /\ phase_ \in Phase_
  /\ IsFinite(amplitudeCoefficient_)

\* ================================================================ claims
\* The sample about to be taken belongs to an undisturbed note played with
\* valid parameters.
ValidNote ==
  /\ undisturbed
  /\ Less(Zero, attackTime_)
  /\ Less(Zero, decayTime_)

\* C1: for attackTime > 0, decayTime > 0 and sustainLevel in [0, 1], after
\* startAttack in INACTIVE and with only samples since, each sample taken in
\* ATTACK does not lower the coefficient and yields exactly 1 when it enters
\* DECAY, each sample taken in DECAY does not raise the coefficient, keeps it
\* at or above sustainLevel and yields sustainLevel when it enters SUSTAIN,
\* and each sample taken in SUSTAIN yields sustainLevel and stays in SUSTAIN.
C1_EnvelopeShape ==
  [][ (ValidNote /\ lastOp' = "sample" /\ undisturbed') =>
        /\ phase_ = ATTACK =>
             /\ Leq(amplitudeCoefficient_, amplitudeCoefficient_')
             /\ phase_' \in {ATTACK, DECAY}
             /\ phase_' = DECAY => amplitudeCoefficient_' = One
        /\ phase_ = DECAY =>
             /\ Leq(amplitudeCoefficient_', amplitudeCoefficient_)
             /\ Leq(sustainLevel_, amplitudeCoefficient_')
             /\ phase_' \in {DECAY, SUSTAIN}
             /\ phase_' = SUSTAIN => amplitudeCoefficient_' = sustainLevel_
        /\ phase_ = SUSTAIN =>
             /\ amplitudeCoefficient_' = sustainLevel_
             /\ phase_' = SUSTAIN ]_vars

\* A note that ran undisturbed through a clamped attack and a clamped decay
\* and is held at a sustain level strictly between 0 and 1.
C1_Witness ==
  /\ ValidNote
  /\ lastOp = "sample"
  /\ phase_ = SUSTAIN
  /\ amplitudeCoefficient_ = sustainLevel_
  /\ Less(Zero, sustainLevel_) /\ Less(sustainLevel_, One)
  /\ attackStep_ = Rat(2, 3)
  /\ decayStep_ = Rat(1, 3)

\* C2: in every reachable state the amplitude coefficient lies in [0, 1].
C2_AmplitudeInRange ==
  /\ Leq(Zero, amplitudeCoefficient_)
  /\ Leq(amplitudeCoefficient_, One)

\* Setters interleaved with samples: the sustain level was raised to 1 during
\* a decay, the next sample clamped the amplitude to it, and the level was
\* lowered again while the note is held at 1.
C2_Witness ==
  /\ lastOp = "sample"
  /\ phase_ = SUSTAIN
  /\ amplitudeCoefficient_ = One
  /\ Less(sustainLevel_, One)

\* C3: once the envelope is in RELEASE, with samples being pulled forever, it
\* reaches INACTIVE with amplitude 0 unless startAttack is called first.
C3_ReleaseReachesInactive ==
  (phase_ = RELEASE) ~>
     \/ phase_ = INACTIVE /\ amplitudeCoefficient_ = Zero
     \/ lastOp = "startAttack"

Rank(phase) == phase

\* C4: every change of phase moves forward in the order ATTACK, DECAY,
\* SUSTAIN, RELEASE, INACTIVE, or enters ATTACK.
C4_PhaseOrder ==
  [][ phase_' # phase_ => (Rank(phase_') > Rank(phase_) \/ phase_' = ATTACK)
    ]_vars

\* C5: a startRelease that directly follows a startRelease leaves the
\* envelope state (phase, amplitude, steps, parameters) unchanged.
C5_StartReleaseIdempotent ==
  [][ (lastOp = "startRelease" /\ lastOp' = "startRelease") =>
        envelope' = envelope ]_vars

\* startRelease was called in RELEASE and returned early: the release step
\* under way is not the one it computes from the current amplitude.
C5_Witness ==
  /\ lastOp = "startRelease"
  /\ phase_ = RELEASE
  /\ Less(Zero, amplitudeCoefficient_)
  /\ Less(Zero, releaseStep_)
  /\ releaseStep_ # ReleaseStepFor(SAMPLE_INTERVAL_, decayTime_,
                                   amplitudeCoefficient_)

\* C6: a setter called while the envelope is in RELEASE does not change the
\* release step.
C6_ReleaseStepFixed ==
  [][ (phase_ = RELEASE /\ lastOp' \in SetterOps) =>
        releaseStep_' = releaseStep_ ]_vars

\* The step of the phase a sample is taken in.
StepInForce ==
  CASE phase_ = ATTACK -> attackStep_
    [] phase_ = DECAY -> decayStep_
    [] phase_ = RELEASE -> releaseStep_
    [] OTHER -> Zero

AbsDiff(x, y) == IF Leq(x, y) THEN Sub(y, x) ELSE Sub(x, y)

\* C7: a sample changes the amplitude by at most the step of the phase it is
\* taken in, whatever setters were called before it.
C7_NoDiscontinuity ==
  [][ lastOp' = "sample" =>
        Leq(AbsDiff(amplitudeCoefficient_', amplitudeCoefficient_),
            StepInForce) ]_vars

\* C8: the setters leave phase and amplitude coefficient unchanged.
C8_SettersKeepPhaseAndAmplitude ==
  [][ lastOp' \in SetterOps =>
        /\ phase_' = phase_
        /\ amplitudeCoefficient_' = amplitudeCoefficient_ ]_vars

\* setSustainLevel was called in the middle of a decay, with a level above
\* the current amplitude.
C8_Witness ==
  /\ lastOp = "setSustainLevel"
  /\ phase_ = DECAY
  /\ Less(amplitudeCoefficient_, sustainLevel_)

\* C9: no step is ever the result of a division by a zero or negative time;
\* with attackTime <= 0 a sample taken in ATTACK yields 1 and leaves ATTACK;
\* with decayTime <= 0 a sample taken in DECAY yields sustainLevel in SUSTAIN
\* and a sample taken in RELEASE yields 0 in INACTIVE.
C9_InstantRamps ==
  /\ [](/\ IsFinite(attackStep_) /\ Leq(Zero, attackStep_)
        /\ IsFinite(decayStep_) /\ Leq(Zero, decayStep_)
        /\ IsFinite(releaseStep_) /\ Leq(Zero, releaseStep_))
  /\ [][ lastOp' = "sample" =>
           /\ (phase_ = ATTACK /\ Leq(attackTime_, Zero)) =>
                (amplitudeCoefficient_' = One /\ phase_' = DECAY)
           /\ (phase_ = DECAY /\ Leq(decayTime_, Zero)) =>
                (amplitudeCoefficient_' = sustainLevel_ /\ phase_' = SUSTAIN)
           /\ (phase_ = RELEASE /\ Leq(decayTime_, Zero)) =>
                (amplitudeCoefficient_' = Zero /\ phase_' = INACTIVE) ]_vars

\* A note started in INACTIVE with attack time 0 and a negative decay time,
\* sampled only: the first sample ended the attack, the second the decay.
C9_Witness ==
  /\ undisturbed
  /\ lastOp = "sample"
  /\ phase_ = SUSTAIN
  /\ attackTime_ = Zero
  /\ Less(decayTime_, Zero)
  /\ amplitudeCoefficient_ = sustainLevel_
  /\ Less(Zero, sustainLevel_) /\ Less(sustainLevel_, One)

\* C10: startAttack sets the amplitude coefficient to 0 and the phase to
\* ATTACK and leaves attackStep and decayStep at the values derived from the
\* current attackTime, decayTime and sustainLevel.
C10_StartAttack ==
  [][ lastOp' = "startAttack" =>
        /\ amplitudeCoefficient_' = Zero
        /\ phase_' = ATTACK
        /\ attackStep_' = AttackStepFor(SAMPLE_INTERVAL_', attackTime_')
        /\ decayStep_' =
             DecayStepFor(SAMPLE_INTERVAL_', decayTime_', sustainLevel_')
        /\ <<attackTime_', decayTime_', sustainLevel_'>> =
             <<attackTime_, decayTime_, sustainLevel_>> ]_vars

\* startAttack was called in a phase other than INACTIVE.
C10_Witness ==
  /\ lastOp = "startAttack"
  /\ phase_ = ATTACK
  /\ amplitudeCoefficient_ = Zero
  /\ Less(Zero, releaseStep_)
  /\ undisturbed = FALSE

\* A startAttack was called in RELEASE by the last method call.
RestartedInRelease ==
  /\ lastOp = "startAttack"
  /\ releasedAmplitude # NoAmplitude

\* C11 (as claimed): the first sample after a startAttack called in RELEASE
\* is not lower than the amplitude the release had reached.
C11_RestartKeepsAmplitude ==
  [][ (RestartedInRelease /\ lastOp' = "sample") =>
        Leq(releasedAmplitude, amplitudeCoefficient_') ]_vars

\* C11 (amended): a startAttack called in RELEASE restarts the attack from
\* amplitude 0: the first sample after it is the attack step, capped at 1,
\* whatever amplitude the release had reached.
C11_RestartFromZero ==
  [][ (RestartedInRelease /\ lastOp' = "sample") =>
        amplitudeCoefficient_' =
          (IF Geq(attackStep_, One) THEN One ELSE attackStep_) ]_vars

\* startAttack was called in a release that had reached an amplitude above
\* the attack step.
C11_Witness ==
  /\ RestartedInRelease
  /\ phase_ = ATTACK
  /\ Less(attackStep_, releasedAmplitude)

\* C12: once turnOffAudio or dispose has been called and no turnOnAudio
\* after it, the signal chain is not connected to the destination, whenever
\* the deferred connect callback runs.
C12_OffStaysOff == audioOff => ~connected

\* The state of the synthesizer's sound generators.
synthesizerState ==
  <<envelope, oscParams, oscRunning, oscOutput, keyVars, synthesizers_,
    masterMixer_>>

C14_FailedInitIsInert ==
  webkitAudioContext # "ok" =>
    /\ synthesizers_ = 0
    /\ masterMixer_ = Undefined
    /\ ~threw
    /\ ~connected
    /\ pendingConnects = 0

\* turnOnAudio was called after dispose on a doodle whose context threw.
C14_Witness ==
  /\ webkitAudioContext = "throws"
  /\ disposed_
  /\ lastOp = "turnOnAudio"

\* C15: on every sample the phase used is less than one cycle of the
\* frequency in force: the progress returned by the phase advance lies in
\* [0, 1).
C15_ProgressInCycle ==
  (lastOp = "sample" /\ progressInCycle # Null) =>
    /\ Leq(Zero, progressInCycle)
    /\ Less(progressInCycle, One)

\* C16: for every wave form, the level of every sample lies in [-1, 1].
C16_LevelInRange ==
  (lastOp = "sample" /\ waveLevel # Null) =>
    /\ Leq(FromInt(0 - 1), waveLevel)
    /\ Leq(waveLevel, One)

\* The part of a cycle, from its start, for which a pulse wave form is high.
HighPart(waveForm) ==
  CASE waveForm = "SQUARE" -> Rat(1, 2)
    [] waveForm = "FAT_PULSE" -> Rat(1, 3)
    [] waveForm = "PULSE" -> Rat(1, 4)

\* C17: at a constant frequency the level of SQUARE, FAT_PULSE and PULSE is
\* +1 for a sample in the first half, third and quarter of its cycle, and
\* -1 for a sample in the rest of the cycle.
C17_PulseShapes ==
  [][ (/\ lastOp' = "sample"
       /\ steady'
       /\ waveForm_ \in {"SQUARE", "FAT_PULSE", "PULSE"}) =>
        waveLevel' =
          (IF Less(Quot(Mul(cycleTime, frequency'), FromInt(2)),
                   HighPart(waveForm_))
             THEN One ELSE FromInt(0 - 1)) ]_vars

\* C18: with glide on and a glide duration D > 0, the k-th sample after a
\* change of the target frequency made after the first note yields the
\* pitch start + k * (target - start) / (D/T), and the target from the
\* ceil(D/T)-th sample on.
C18_GlideLength ==
  [][ (/\ lastOp' = "sample"
       /\ isGlideOn_
       /\ Less(Zero, glideDuration_)
       /\ glideStart' # Null) =>
        currentGlidePitch_' =
          (IF glideSamples' >= GlideLength
             THEN Hertz(targetFrequency')
             ELSE Add(glideStart',
                      Mul(FromInt(glideSamples'),
                          Quot(Sub(Hertz(targetFrequency'), glideStart'),
                               Quot(glideDuration_, SAMPLE_INTERVAL_)))))
    ]_vars

\* C19: with glide off, a sample yields the target frequency as the glide
\* frequency, and both stored glide pitches equal the target afterwards.
C19_GlideOff ==
  [][ (lastOp' = "sample" /\ ~isGlideOn_) =>
        /\ glideFrequency' = Hertz(targetFrequency')
        /\ currentGlidePitch_' = Hertz(targetFrequency')
        /\ targetGlidePitch_' = Hertz(targetFrequency') ]_vars

\* With glide off, the first sample after a change of the target came from
\* another pitch, with a glide delta left over from an earlier glide.
C19_Witness ==
  /\ lastOp = "sample"
  /\ ~isGlideOn_
  /\ glideSamples = 1
  /\ glideStart # Null
  /\ glideStart # currentGlidePitch_
  /\ glideDelta_ # Null
  /\ glideDelta_ # Zero

\* The frequency of note 0 computed with range 1, pitch bend 0 and keyboard
\* pitch control on.
NoteZeroComputed ==
  /\ lastOp = "getInstantaneousFrequency"
  /\ range_ = One
  /\ pitchBend_ = Zero
  /\ isAcceptingKeyboardPitch_
  /\ activeNote_ = 0

\* C20: with range 1, pitch bend 0 and keyboard pitch control on, the
\* frequency of note 0 is exactly BASE_FREQUENCY_, 55 Hz.
C20_NoteZeroIsBase ==
  NoteZeroComputed =>
    /\ targetFrequency = <<FromInt(BASE_FREQUENCY_), 0>>
    /\ pitchBend = One

\* C20, as the code has it: with range 1, pitch bend 0 and keyboard pitch
\* control on, the frequency of note 0 is BASE_FREQUENCY_ * 2^(-4/12), that
\* is 27.5 * 2^(8/12) Hz, and it is the note -NOTE_OFFSET_ whose frequency
\* is exactly BASE_FREQUENCY_.
C20_NoteFourIsBase ==
  (/\ lastOp = "getInstantaneousFrequency"
   /\ range_ = One
   /\ pitchBend_ = Zero
   /\ isAcceptingKeyboardPitch_) =>
    /\ pitchBend = One
    /\ activeNote_ = 0 => targetFrequency = <<Rat(BASE_FREQUENCY_, 2), 8>>
    /\ activeNote_ = 0 - NOTE_OFFSET_ =>
         targetFrequency = <<FromInt(BASE_FREQUENCY_), 0>>

C20_Witness == NoteZeroComputed

\* Twice the frequency <<c, e>>.
Twice(f) == <<Mul(FromInt(2), f[1]), f[2]>>

\* The frequency that was computed for the note n with the range and the
\* pitch bend of the oscillator, keyboard pitch control being on.
ComputedFor(n) ==
  /\ lastOp = "getInstantaneousFrequency"
  /\ isAcceptingKeyboardPitch_
  /\ activeNote_ = n

C29_NoteIgnoredWithoutTracking ==
  (lastOp = "getInstantaneousFrequency" /\ ~isAcceptingKeyboardPitch_) =>
    \A note \in Notes :
      /\ targetFrequency = GetInstantaneousFrequency(note, range_, FALSE)
      /\ pitchBend = GetPitchBend(pitchBend_, FALSE)

\* The frequency was computed with keyboard pitch control off and an
\* active note other than 0.
C29_Witness ==
  /\ lastOp = "getInstantaneousFrequency"
  /\ ~isAcceptingKeyboardPitch_
  /\ activeNote_ = MaxNote
  /\ targetFrequency[2] = 8

\* The index of the output buffer that the last sample wrote.
WrittenIndex == IF bufferIndex = 0 THEN BufferLength ELSE bufferIndex

\* The step takes a sample in the given fill mode.
SampleFilled(mode) == lastOp' = "sample" /\ fillMode = mode

C23_FillModes ==
  [][lastOp' = "sample" =>
       LET i == bufferIndex + 1
           audio == Mul(Mul(waveLevel', volume_), amplitudeCoefficient_')
       IN  /\ SampleFilled("CLOBBER") => right'[i] = audio
           /\ SampleFilled("ADD") => right'[i] = Add(right[i], audio)
           /\ SampleFilled("MIX") =>
                right'[i] = Quot(Add(right[i], audio), mixDivisor)
           /\ \A j \in BufferIndices \ {i} : right'[j] = right[j]]_vars

\* A sample of level 1 at full volume and amplitude was mixed into a buffer
\* that held the sample 1, with the divisor 3.
C23_Witness ==
  /\ lastOp = "sample"
  /\ fillMode = "MIX"
  /\ mixDivisor = FromInt(Oscillators)
  /\ volume_ = One
  /\ amplitudeCoefficient_ = One
  /\ waveLevel = One
  /\ right[WrittenIndex] = Rat(2, Oscillators)

\* C30: the oscillator that ends a pass over the Oscillators oscillators
\* mixes its sample, with the divisor Oscillators, into a buffer that holds
\* the sum of the samples of the others, each within [-1, 1]; with a volume
\* within [0, 1] the sample it leaves is within [-1, 1].
C30_MixedSampleInRange ==
  (/\ lastOp = "sample"
   /\ fillMode = "MIX"
   /\ mixDivisor = FromInt(Oscillators)) =>
    /\ Leq(FromInt(0 - 1), right[WrittenIndex])
    /\ Leq(right[WrittenIndex], One)

\* C24: when the modulator buffer passed is null or the frequency
\* modulation is off, the frequency passed on is the pitch bend times the
\* base frequency that the glide returned, a finite number, at every index
\* of the buffer.
C24_NoModulation ==
  [][(/\ lastOp' = "sample"
      /\ ~isFrequencyModulationOn_ \/ modulatorInput = Null) =>
       /\ frequency' = Mul(pitchBend', glideFrequency')
       /\ IsFinite(frequency')]_vars

\* A sample was taken with the frequency modulation on and a null
\* modulator buffer, at the last index of the buffer.
C24_Witness ==
  /\ lastOp = "sample"
  /\ isFrequencyModulationOn_
  /\ modulatorInput = Null
  /\ bufferIndex = 0
  /\ frequency = Hertz(targetFrequency)

\* The frequency at which an oscillator with frequency modulation on, base
\* frequency BASE_FREQUENCY_ and pitch bend 0 plays the sample m of the
\* modulator buffer.
ModulatedBy(m) == GetModulationFrequency(FromInt(BASE_FREQUENCY_), m, TRUE)

\* C26: the frequency passed to advancedPhase_ is above 0 on every sample,
\* for the oscillator that fills the modulator buffer and for the
\* oscillator that reads it with frequency modulation on: every sample a
\* modulator with a modulator level within [0, 1] writes gives a modulation
\* multiplier within [1/2, 2].
C26_FrequencyPositive ==
  /\ lastOp = "sample" => Less(Zero, frequency)
  /\ \A i \in DOMAIN modulatorSignal :
       /\ Less(Zero, ModulatedBy(modulatorSignal[i]))
       /\ Leq(Rat(BASE_FREQUENCY_, 2), ModulatedBy(modulatorSignal[i]))
       /\ Leq(ModulatedBy(modulatorSignal[i]), FromInt(2 * BASE_FREQUENCY_))

LastKeyCall == keyCalls'[Len(keyCalls')]

C27_ModulatorReadInPass ==
  [][lastOp' = "getModulationFrequency" =>
       /\ modulatorRead' # Null
       /\ modulatorRead' = modulatorSignal[readIndex + 1]
       /\ readFromPass' = pass]_vars

\* In the second pass the oscillator has read the sample the modulator
\* wrote at index 0 in the second pass.
C27_Witness ==
  /\ lastOp = "getModulationFrequency"
  /\ pass = 2
  /\ readIndex = 1
  /\ readFromPass = 2
  /\ modulatorRead = modulatorSignal[1]
  /\ modulatorRead # Zero

\* C31: startAttack of the low-pass filter at the time t keeps only the
\* changes scheduled before t and schedules after them, in this order, the
\* cutoff frequency at t, an exponential ramp to contour * cutoff at
\* t + attackTime and an exponential ramp to
\* cutoff + sustainLevel * (contour * cutoff - cutoff) at
\* t + attackTime + decayTime; with sustain level 0 the last target is the
\* cutoff frequency and with sustain level 1 it is contour * cutoff.
C31_FilterAttackSchedule ==
  [][lastOp' = "LowPassFilter.startAttack" =>
      LET t == currentTime
          cutoff == lowPassFilter.cutoffFrequency_
          peak == Mul(lowPassFilter.contour_, cutoff)
          level == lowPassFilter.sustainLevel_
          attackEnd == Add(t, lowPassFilter.attackTime_)
          decayEnd == Add(attackEnd, lowPassFilter.decayTime_)
          kept == SelectSeq(lowPassFilterNode_.events,
                            LAMBDA e : Less(e.time, t))
          events == lowPassFilterNode_'.events
          final == events[Len(events)]
      IN  /\ events =
               kept \o
               <<[kind |-> "setValueAtTime", value |-> cutoff, time |-> t],
                 [kind |-> "exponentialRampToValueAtTime", value |-> peak,
                  time |-> attackEnd],
                 [kind |-> "exponentialRampToValueAtTime",
                  value |-> Add(cutoff, Mul(level, Sub(peak, cutoff))),
                  time |-> decayEnd]>>
          /\ level = Zero => final.value = cutoff
          /\ level = One => final.value = peak]_vars

\* startAttack was called with a contour other than 1 and sustain level 0,
\* cancelled changes of an earlier attack and kept one of them.
C31_Witness ==
  /\ lastOp = "LowPassFilter.startAttack"
  /\ Len(lowPassFilterNode_.events) = 4
  /\ lowPassFilter.contour_ # One
  /\ lowPassFilter.sustainLevel_ = Zero
  /\ lowPassFilterNode_.interrupted

FilterSetters ==
  {"setCutoffFrequency", "setContour", "setContourAttackTime",
   "setContourDecayTime", "setContourSustainLevel"}

\* C32: after each setter of the low-pass filter, also one called while a
\* ramp is in flight, no change of the frequency is scheduled and the
\* frequency of the filter node is the cutoff frequency; and while nothing
\* is scheduled, nothing but startAttack schedules a change or moves the
\* frequency.
C32_SettersResetContour ==
  /\ [](lastOp \in FilterSetters =>
          /\ lowPassFilterNode_.events = << >>
          /\ lowPassFilterNode_.value = lowPassFilter.cutoffFrequency_)
  /\ [][(/\ lowPassFilterNode_.events = << >>
         /\ lastOp' # "LowPassFilter.startAttack") =>
          /\ lowPassFilterNode_'.events = << >>
          /\ lastOp' = "currentTime" =>
               lowPassFilterNode_'.value = lowPassFilterNode_.value]_vars

\* A setter was called while a ramp was in flight, after the clock had
\* advanced.
C32_Witness ==
  /\ lastOp \in FilterSetters
  /\ lowPassFilterNode_.interrupted
  /\ Less(Zero, currentTime)
  /\ lowPassFilterNode_.events = << >>

\* C33: in SUSTAIN, every call but startAttack and startRelease, that is
\* every sample and every setter, leaves the envelope in SUSTAIN with the
\* amplitude it had, so that every sample returns the amplitude of the
\* sample that entered SUSTAIN.
C33_SustainHolds ==
  [][(/\ phase_ = SUSTAIN
      /\ lastOp' \in {"sample"} \cup SetterOps) =>
       /\ phase_' = SUSTAIN
       /\ amplitudeCoefficient_' = amplitudeCoefficient_]_vars

\* A sample was taken in SUSTAIN after the sustain level was raised above
\* the amplitude held.
C33_Witness ==
  /\ lastOp = "sample"
  /\ phase_ = SUSTAIN
  /\ Less(amplitudeCoefficient_, sustainLevel_)

\* Levels of a wave form, among them levels outside [-1, 1].
WaveLevels == {FromInt(0 - 5), FromInt(0 - 1), Zero, Rat(1, 2), One}

\* C34: whenever the phase is INACTIVE the amplitude coefficient is 0, and a
\* sample taken in INACTIVE returns 0, leaves the phase and the amplitude as
\* they are and gives audio level 0 at every wave level and volume.
C34_InactiveIsSilent ==
  /\ [](phase_ = INACTIVE => amplitudeCoefficient_ = Zero)
  /\ [][(phase_ = INACTIVE /\ lastOp' = "sample") =>
          /\ amplitudeCoefficient_' = Zero
          /\ phase_' = INACTIVE
          /\ amplitudeCoefficient_' = amplitudeCoefficient_
          /\ \A level \in WaveLevels, volume \in Volumes :
               AudioLevel(level, volume, amplitudeCoefficient_') = Zero]_vars

\* A sample left the envelope INACTIVE after a note was played and its
\* parameters were changed: the release step is not the one of the
\* constructor.
C34_Witness ==
  /\ lastOp = "sample"
  /\ phase_ = INACTIVE
  /\ amplitudeCoefficient_ = Zero
  /\ releaseStep_ #
       SustainReleaseStepFor(SAMPLE_INTERVAL_, decayTime_, sustainLevel_)

\* The samples a release of the length of the decay time takes.
ReleaseSamples == Ceil(Quot(decayTime_, SAMPLE_INTERVAL_))

\* A sample is taken in a release that startRelease began in ATTACK, DECAY
\* or SUSTAIN at an amplitude above 0, with decayTime > 0 and no setter
\* called since.
ReleaseSampled ==
  /\ phase_ = RELEASE
  /\ releaseSamples # Null
  /\ Less(Zero, decayTime_)
  /\ lastOp' = "sample"

Between(a, b, t) ==
  \/ Leq(a, b) /\ Leq(b, t)
  \/ Leq(t, b) /\ Leq(b, a)

\* C35: with glide on and a glide duration > 0, after every sample taken
\* once a first tone was played the current glide pitch lies between its
\* value before the sample and the target frequency of the sample.
C35_GlideNeverPasses ==
  [][(/\ lastOp' = "sample"
      /\ isGlideOn_
      /\ Less(Zero, glideDuration_)
      /\ currentGlidePitch_ # Null) =>
       Between(currentGlidePitch_, currentGlidePitch_',
               Hertz(targetFrequency'))]_vars

====
